---- MODULE Spec2Model ----
(***************************************************************************)
(* Odds normalisation of the bestbets scraper: the table interpreter and   *)
(* fallback moneyline association (RSSFeedAgent.parseOddsData), the        *)
(* content sanitizer (save_comprehensive_data.js) and the per-article loop *)
(* of the scraper (puppeteer_rss.js).                                      *)
(*                                                                         *)
(* A JavaScript string is a sequence of one-character strings, so that     *)
(* toLowerCase, trim, includes and the regular expressions are computed    *)
(* character by character as the source computes them.  A JavaScript       *)
(* array is a sequence.  `total`, which is null or one object, is a        *)
(* sequence of length 0 or 1.                                              *)
(***************************************************************************)
EXTENDS Integers, Sequences, FiniteSets, TLC

----------------------------------------------------------------------------
(* Strings *)

\* The value of a missing property (undefined); no string, as every element
\* of a string is a single character.
Undefined == <<"undefined">>

UpperChars == <<"A","B","C","D","E","F","G","H","I","J","K","L","M",
                "N","O","P","Q","R","S","T","U","V","W","X","Y","Z">>
LowerChars == <<"a","b","c","d","e","f","g","h","i","j","k","l","m",
                "n","o","p","q","r","s","t","u","v","w","x","y","z">>

\* The lower-case letter of each upper-case letter.
UpperToLower ==
  [c \in {UpperChars[i] : i \in 1..26} |->
     LowerChars[CHOOSE i \in 1..26 : UpperChars[i] = c]]

LowerChar(c) == IF c \in DOMAIN UpperToLower THEN UpperToLower[c] ELSE c

toLowerCase(s) == [i \in 1..Len(s) |-> LowerChar(s[i])]

IsDigit(c) == c \in {"0","1","2","3","4","5","6","7","8","9"}
IsSpace(c) == c \in {" ", "\t", "\n"}
IsSign(c) == c \in {"+", "-"}

\* s[i], or "" past either end of s.
At(s, i) == IF i \in 1..Len(s) THEN s[i] ELSE ""

\* s.includes(p): p occurs at some position i of s.
includes(s, p) ==
  \/ p = <<>>
  \/ \E i \in 1..(Len(s) - Len(p) + 1) :
       s[i] = p[1] /\ SubSeq(s, i, i + Len(p) - 1) = p

trim(s) ==
  LET keep == {i \in 1..Len(s) : ~IsSpace(s[i])}
  IN  IF keep = {} THEN <<>>
      ELSE SubSeq(s, CHOOSE i \in keep : \A j \in keep : i <= j,
                     CHOOSE i \in keep : \A j \in keep : j <= i)

\* s.replace(/\s+/g, ' ')
RECURSIVE collapseSpaces(_)
collapseSpaces(s) ==
  IF s = <<>> THEN <<>>
  ELSE IF IsSpace(Head(s))
    THEN IF Len(s) > 1 /\ IsSpace(s[2])
           THEN collapseSpaces(Tail(s))
           ELSE <<" ">> \o collapseSpaces(Tail(s))
    ELSE <<Head(s)>> \o collapseSpaces(Tail(s))

\* The index after the longest run of digits (of white space) that starts at i.
RECURSIVE DigitsEnd(_, _)
DigitsEnd(s, i) == IF IsDigit(At(s, i)) THEN DigitsEnd(s, i + 1) ELSE i

RECURSIVE SpacesEnd(_, _)
SpacesEnd(s, i) == IF IsSpace(At(s, i)) THEN SpacesEnd(s, i + 1) ELSE i

\* /([+-]\d+\.?\d*)\s*\(([+-]\d+)\)/ tried at position i: <<group 1, group 2>>,
\* or <<>> when it does not match there.  Every quantifier is followed by a
\* character it cannot consume, so the greedy match is the only one.
spreadMatchAt(s, i) ==
  LET d1 == DigitsEnd(s, i + 1)
      a  == IF At(s, d1) = "." THEN d1 + 1 ELSE d1
      d2 == DigitsEnd(s, a)
      w  == SpacesEnd(s, d2)
      e  == DigitsEnd(s, w + 2)
  IN  IF /\ IsSign(At(s, i))
         /\ d1 > i + 1
         /\ At(s, w) = "("
         /\ IsSign(At(s, w + 1))
         /\ e > w + 2
         /\ At(s, e) = ")"
        THEN <<SubSeq(s, i, d2 - 1), SubSeq(s, w + 1, e - 1)>>
        ELSE <<>>

\* spread.match(...): the leftmost match, or <<>> for null.
spreadMatch(s) ==
  LET at == {i \in 1..Len(s) : spreadMatchAt(s, i) # <<>>}
  IN  IF at = {} THEN <<>>
      ELSE spreadMatchAt(s, CHOOSE i \in at : \A j \in at : i <= j)

\* total.match(/(\d+\.?\d*)/): <<group 1>> of the leftmost match, or <<>>.
totalMatch(s) ==
  LET at == {i \in 1..Len(s) : IsDigit(s[i])}
  IN  IF at = {} THEN <<>>
      ELSE LET i  == CHOOSE k \in at : \A j \in at : k <= j
               d1 == DigitsEnd(s, i)
               a  == IF At(s, d1) = "." THEN d1 + 1 ELSE d1
           IN  <<SubSeq(s, i, DigitsEnd(s, a) - 1)>>

\* /^[+-]\d{3,4}$/.test(odd) || /^[+-]\d{1,2}$/.test(odd)
isMoneylineOdd(odd) ==
  /\ Len(odd) \in 2..5
  /\ IsSign(odd[1])
  /\ \A i \in 2..Len(odd) : IsDigit(odd[i])

----------------------------------------------------------------------------
(* RSSFeedAgent.parseOddsData *)

StrSpread    == <<"S","p","r","e","a","d">>
StrMoneyline == <<"M","o","n","e","y","l","i","n","e">>
StrTotal     == <<"T","o","t","a","l">>
StrPoints    == <<"P","o","i","n","t","s">>
StrDefaultOdds == <<"(","-","1","1","0",")">>
StrTeam1     == <<"T","e","a","m"," ","1">>
StrTeam2     == <<"T","e","a","m"," ","2">>
StrFighter1  == <<"F","i","g","h","t","e","r"," ","1">>
StrFighter2  == <<"F","i","g","h","t","e","r"," ","2">>
StrPlayer1   == <<"P","l","a","y","e","r"," ","1">>
StrPlayer2   == <<"P","l","a","y","e","r"," ","2">>
StrOU        == <<"O","/","U"," ">>
StrOverUnder == <<"O","v","e","r",":"," ","(","-","1","1","0",")",","," ",
                  "U","n","d","e","r",":"," ","(","-","1","1","0",")">>
KwSpread  == <<"s","p","r","e","a","d">>
KwFighter == <<"f","i","g","h","t","e","r">>
KwPlayer  == <<"p","l","a","y","e","r">>

\* The object literal teamPatterns, in declaration order (the order in which
\* Object.entries lists it: no key is an array index).
teamPatterns ==
  <<
    [pattern |-> <<"p","a","t","r","i","o","t","s">>, name |-> <<"P","a","t","r","i","o","t","s">>],
    [pattern |-> <<"c","o","m","m","a","n","d","e","r","s">>, name |-> <<"C","o","m","m","a","n","d","e","r","s">>],
    [pattern |-> <<"b","e","n","g","a","l","s">>, name |-> <<"B","e","n","g","a","l","s">>],
    [pattern |-> <<"e","a","g","l","e","s">>, name |-> <<"E","a","g","l","e","s">>],
    [pattern |-> <<"c","h","i","e","f","s">>, name |-> <<"C","h","i","e","f","s">>],
    [pattern |-> <<"b","i","l","l","s">>, name |-> <<"B","i","l","l","s">>],
    [pattern |-> <<"4","9","e","r","s">>, name |-> <<"4","9","e","r","s">>],
    [pattern |-> <<"c","o","w","b","o","y","s">>, name |-> <<"C","o","w","b","o","y","s">>],
    [pattern |-> <<"p","a","c","k","e","r","s">>, name |-> <<"P","a","c","k","e","r","s">>],
    [pattern |-> <<"l","i","o","n","s">>, name |-> <<"L","i","o","n","s">>],
    [pattern |-> <<"j","e","t","s">>, name |-> <<"J","e","t","s">>],
    [pattern |-> <<"d","o","l","p","h","i","n","s">>, name |-> <<"D","o","l","p","h","i","n","s">>],
    [pattern |-> <<"s","t","e","e","l","e","r","s">>, name |-> <<"S","t","e","e","l","e","r","s">>],
    [pattern |-> <<"b","r","o","w","n","s">>, name |-> <<"B","r","o","w","n","s">>],
    [pattern |-> <<"r","a","v","e","n","s">>, name |-> <<"R","a","v","e","n","s">>],
    [pattern |-> <<"t","i","t","a","n","s">>, name |-> <<"T","i","t","a","n","s">>],
    [pattern |-> <<"j","a","g","u","a","r","s">>, name |-> <<"J","a","g","u","a","r","s">>],
    [pattern |-> <<"c","o","l","t","s">>, name |-> <<"C","o","l","t","s">>],
    [pattern |-> <<"t","e","x","a","n","s">>, name |-> <<"T","e","x","a","n","s">>],
    [pattern |-> <<"b","r","o","n","c","o","s">>, name |-> <<"B","r","o","n","c","o","s">>],
    [pattern |-> <<"r","a","i","d","e","r","s">>, name |-> <<"R","a","i","d","e","r","s">>],
    [pattern |-> <<"c","h","a","r","g","e","r","s">>, name |-> <<"C","h","a","r","g","e","r","s">>],
    [pattern |-> <<"c","a","r","d","i","n","a","l","s">>, name |-> <<"C","a","r","d","i","n","a","l","s">>],
    [pattern |-> <<"r","a","m","s">>, name |-> <<"R","a","m","s">>],
    [pattern |-> <<"s","e","a","h","a","w","k","s">>, name |-> <<"S","e","a","h","a","w","k","s">>],
    [pattern |-> <<"f","a","l","c","o","n","s">>, name |-> <<"F","a","l","c","o","n","s">>],
    [pattern |-> <<"p","a","n","t","h","e","r","s">>, name |-> <<"P","a","n","t","h","e","r","s">>],
    [pattern |-> <<"s","a","i","n","t","s">>, name |-> <<"S","a","i","n","t","s">>],
    [pattern |-> <<"b","u","c","c","a","n","e","e","r","s">>, name |-> <<"B","u","c","c","a","n","e","e","r","s">>],
    [pattern |-> <<"v","i","k","i","n","g","s">>, name |-> <<"V","i","k","i","n","g","s">>],
    [pattern |-> <<"b","e","a","r","s">>, name |-> <<"B","e","a","r","s">>],
    [pattern |-> <<"g","i","a","n","t","s">>, name |-> <<"G","i","a","n","t","s">>],
    [pattern |-> <<"w","a","s","h","i","n","g","t","o","n">>, name |-> <<"C","o","m","m","a","n","d","e","r","s">>],
    [pattern |-> <<"l","a","k","e","r","s">>, name |-> <<"L","a","k","e","r","s">>],
    [pattern |-> <<"c","e","l","t","i","c","s">>, name |-> <<"C","e","l","t","i","c","s">>],
    [pattern |-> <<"w","a","r","r","i","o","r","s">>, name |-> <<"W","a","r","r","i","o","r","s">>],
    [pattern |-> <<"h","e","a","t">>, name |-> <<"H","e","a","t">>],
    [pattern |-> <<"b","u","l","l","s">>, name |-> <<"B","u","l","l","s">>],
    [pattern |-> <<"k","n","i","c","k","s">>, name |-> <<"K","n","i","c","k","s">>],
    [pattern |-> <<"s","u","n","s">>, name |-> <<"S","u","n","s">>],
    [pattern |-> <<"m","a","v","e","r","i","c","k","s">>, name |-> <<"M","a","v","e","r","i","c","k","s">>],
    [pattern |-> <<"b","u","c","k","s">>, name |-> <<"B","u","c","k","s">>],
    [pattern |-> <<"7","6","e","r","s">>, name |-> <<"7","6","e","r","s">>],
    [pattern |-> <<"n","e","t","s">>, name |-> <<"N","e","t","s">>],
    [pattern |-> <<"c","l","i","p","p","e","r","s">>, name |-> <<"C","l","i","p","p","e","r","s">>],
    [pattern |-> <<"n","u","g","g","e","t","s">>, name |-> <<"N","u","g","g","e","t","s">>],
    [pattern |-> <<"j","a","z","z">>, name |-> <<"J","a","z","z">>],
    [pattern |-> <<"t","r","a","i","l"," ","b","l","a","z","e","r","s">>, name |-> <<"T","r","a","i","l"," ","B","l","a","z","e","r","s">>],
    [pattern |-> <<"t","h","u","n","d","e","r">>, name |-> <<"T","h","u","n","d","e","r">>],
    [pattern |-> <<"p","e","l","i","c","a","n","s">>, name |-> <<"P","e","l","i","c","a","n","s">>],
    [pattern |-> <<"k","i","n","g","s">>, name |-> <<"K","i","n","g","s">>],
    [pattern |-> <<"t","i","m","b","e","r","w","o","l","v","e","s">>, name |-> <<"T","i","m","b","e","r","w","o","l","v","e","s">>],
    [pattern |-> <<"r","o","c","k","e","t","s">>, name |-> <<"R","o","c","k","e","t","s">>],
    [pattern |-> <<"s","p","u","r","s">>, name |-> <<"S","p","u","r","s">>],
    [pattern |-> <<"g","r","i","z","z","l","i","e","s">>, name |-> <<"G","r","i","z","z","l","i","e","s">>],
    [pattern |-> <<"m","a","g","i","c">>, name |-> <<"M","a","g","i","c">>],
    [pattern |-> <<"h","a","w","k","s">>, name |-> <<"H","a","w","k","s">>],
    [pattern |-> <<"h","o","r","n","e","t","s">>, name |-> <<"H","o","r","n","e","t","s">>],
    [pattern |-> <<"p","i","s","t","o","n","s">>, name |-> <<"P","i","s","t","o","n","s">>],
    [pattern |-> <<"p","a","c","e","r","s">>, name |-> <<"P","a","c","e","r","s">>],
    [pattern |-> <<"c","a","v","a","l","i","e","r","s">>, name |-> <<"C","a","v","a","l","i","e","r","s">>],
    [pattern |-> <<"r","a","p","t","o","r","s">>, name |-> <<"R","a","p","t","o","r","s">>],
    [pattern |-> <<"w","i","z","a","r","d","s">>, name |-> <<"W","i","z","a","r","d","s">>]
  >>

\* const result = { teams: [], spread: [], ... }
EmptyResult ==
  [teams |-> <<>>, spread |-> <<>>, moneyline |-> <<>>, total |-> <<>>,
   playerProps |-> <<>>, fighters |-> <<>>, keyOdds |-> <<>>]

InSeq(x, seq) == \E i \in 1..Len(seq) : seq[i] = x

\* a || b on strings: the empty string is falsy.
OrElse(a, b) == IF a = <<>> THEN b ELSE a

\* The entries of teamPatterns whose keyword occurs in the lower-cased
\* title: title.includes(pattern).
matchedEntries(title) ==
  {k \in 1..Len(teamPatterns) : includes(title, teamPatterns[k].pattern)}

\* pushedEntries without the test !result.teams.includes(name).
pushedEntriesNoDedup(title) == matchedEntries(title)

\* The entries at which the loop pushes a name: the keyword occurs and no
\* earlier entry has pushed the same name (!result.teams.includes(name)).
pushedEntries(title) ==
  LET m == matchedEntries(title)
  IN  {k \in m : \A j \in m : j < k => teamPatterns[j].name # teamPatterns[k].name}

\* findTeams listing the names by the position of their keyword in the title.
findTeamsTitleOrder(title) ==
  LET ks == pushedEntries(title)
      pos(k) == CHOOSE i \in 1..Len(title) :
                  /\ SubSeq(title, i, i + Len(teamPatterns[k].pattern) - 1)
                       = teamPatterns[k].pattern
                  /\ \A j \in 1..(i - 1) :
                       SubSeq(title, j, j + Len(teamPatterns[k].pattern) - 1)
                         # teamPatterns[k].pattern
  IN  [i \in 1..Cardinality(ks) |->
         teamPatterns[CHOOSE k \in ks :
                        Cardinality({j \in ks : pos(j) < pos(k)}) = i - 1].name]

\* for (const [pattern, name] of Object.entries(teamPatterns)) ...: the
\* names pushed, in the order of the entries.
findTeams(title) ==
  LET ks == pushedEntries(title)
  IN  [i \in 1..Cardinality(ks) |->
         teamPatterns[CHOOSE k \in ks : Cardinality({j \in ks : j < k}) = i - 1].name]

\* headersInclude reading row 0 where the table has no headers.
headersIncludeRow0(table, word) ==
  LET hs == IF table.headers = <<>> /\ table.rows # <<>>
              THEN table.rows[1] ELSE table.headers
  IN  \E k \in 1..Len(hs) : includes(toLowerCase(hs[k]), word)

\* table.headers.some(h => h.toLowerCase().includes(word))
headersInclude(table, word) ==
  \E k \in 1..Len(table.headers) : includes(toLowerCase(table.headers[k]), word)

\* spreadCell keeping a partial entry for a spread text that does not match.
spreadCellPartial(res, team, spread) ==
  IF spread # <<>> /\ spread # StrSpread
    THEN LET m == spreadMatch(spread)
         IN  [res EXCEPT
                !.spread = Append(@, [team |-> team,
                                      line |-> IF m # <<>> THEN m[1] ELSE spread,
                                      odds |-> IF m # <<>> THEN m[2] ELSE <<>>])]
    ELSE res

\* The spread cell of one row of an odds table.
spreadCell(res, team, spread) ==
  IF spread # <<>> /\ spread # StrSpread
    THEN LET m == spreadMatch(spread)
         IN  IF m # <<>>
               THEN [res EXCEPT
                       !.spread = Append(@, [team |-> team, line |-> m[1], odds |-> m[2]]),
                       !.keyOdds = Append(@, [type |-> StrSpread,
                                              description |-> team \o <<" ">> \o m[1],
                                              value |-> m[2]])]
               ELSE res
    ELSE res

\* The moneyline cell of one row of an odds table.
moneylineCell(res, team, moneyline) ==
  IF moneyline # <<>> /\ moneyline # StrMoneyline
    THEN [res EXCEPT
            !.moneyline = Append(@, [team |-> team, odds |-> moneyline]),
            !.keyOdds = Append(@, [type |-> StrMoneyline, description |-> team,
                                   value |-> moneyline])]
    ELSE res

\* totalEntry with the default odds written without parentheses.
totalEntryBare(line) ==
  [over |-> <<"-","1","1","0">>, under |-> <<"-","1","1","0">>, line |-> line]

\* result.total = { over: '(-110)', under: '(-110)', line: totalMatch[1] }
totalEntry(line) ==
  [over |-> StrDefaultOdds, under |-> StrDefaultOdds, line |-> line]

\* The total cell of one row of an odds table.
totalCell(res, total) ==
  IF total # <<>> /\ total # StrTotal
    THEN LET m == totalMatch(total)
         IN  IF m # <<>>
               THEN [res EXCEPT
                       !.total = <<totalEntry(m[1])>>,
                       !.keyOdds = Append(@, [type |-> StrTotal,
                                              description |-> StrOU \o m[1],
                                              value |-> StrOverUnder])]
               ELSE res
    ELSE res

\* The body of table.rows.forEach of the spread/moneyline/total pass.
oddsRow(res, row) ==
  IF Len(row) >= 4
    THEN totalCell(moneylineCell(spreadCell(res, row[1], row[2]), row[1], row[3]),
                   row[4])
    ELSE res

\* oddsRows leaving the loop at the first row of fewer than 4 cells.
RECURSIVE oddsRowsStopAtShortRow(_, _)
oddsRowsStopAtShortRow(res, rows) ==
  IF rows = <<>> \/ Len(Head(rows)) < 4 THEN res
  ELSE oddsRowsStopAtShortRow(oddsRow(res, Head(rows)), Tail(rows))

RECURSIVE oddsRows(_, _)
oddsRows(res, rows) ==
  IF rows = <<>> THEN res ELSE oddsRows(oddsRow(res, Head(rows)), Tail(rows))

\* The body of table.rows.forEach of the fighter pass.
fighterRow(res, row) ==
  IF Len(row) >= 2
    THEN [res EXCEPT !.fighters = Append(@, [name |-> row[1], odds |-> row[2]])]
    ELSE res

RECURSIVE fighterRows(_, _)
fighterRows(res, rows) ==
  IF rows = <<>> THEN res ELSE fighterRows(fighterRow(res, Head(rows)), Tail(rows))

\* The body of table.rows.forEach of the player-props pass.
playerRow(res, row) ==
  IF Len(row) >= 3
    THEN [res EXCEPT !.playerProps =
            Append(@, [player |-> row[1], team |-> row[2], prop |-> StrPoints,
                       odds |-> row[3]])]
    ELSE res

RECURSIVE playerRows(_, _)
playerRows(res, rows) ==
  IF rows = <<>> THEN res ELSE playerRows(playerRow(res, Head(rows)), Tail(rows))

\* Which passes run over a table: three independent ifs.
isOddsTable(table)    == headersInclude(table, KwSpread)
isFighterTable(table) == headersInclude(table, KwFighter)
isPlayerTable(table)  == headersInclude(table, KwPlayer)

\* parseTable with the three checks as one if / else-if chain.
parseTableExclusive(res, table) ==
  IF isOddsTable(table) THEN oddsRows(res, table.rows)
  ELSE IF isFighterTable(table) THEN fighterRows(res, table.rows)
  ELSE IF isPlayerTable(table) THEN playerRows(res, table.rows)
  ELSE res

\* The body of oddsData.tables.forEach.
parseTable(res, table) ==
  LET r1 == IF isOddsTable(table) THEN oddsRows(res, table.rows) ELSE res
      r2 == IF isFighterTable(table) THEN fighterRows(r1, table.rows) ELSE r1
  IN  IF isPlayerTable(table) THEN playerRows(r2, table.rows) ELSE r2

\* parseTables looking at the first table only.
parseTablesFirstOnly(res, tables) ==
  IF tables = <<>> THEN res ELSE parseTable(res, Head(tables))

RECURSIVE parseTables(_, _)
parseTables(res, tables) ==
  IF tables = <<>> THEN res ELSE parseTables(parseTable(res, Head(tables)), Tail(tables))

\* fallbackNames looking at the player props before the fighters.
fallbackNamesPlayersFirst(res) ==
  IF Len(res.teams) >= 2
    THEN <<OrElse(res.teams[1], StrTeam1), OrElse(res.teams[2], StrTeam2)>>
  ELSE IF Len(res.playerProps) >= 2
    THEN <<OrElse(res.playerProps[1].player, StrPlayer1),
           OrElse(res.playerProps[2].player, StrPlayer2)>>
  ELSE IF Len(res.fighters) >= 2
    THEN <<OrElse(res.fighters[1].name, StrFighter1),
           OrElse(res.fighters[2].name, StrFighter2)>>
  ELSE <<StrTeam1, StrTeam2>>

\* The names the fallback pairs with the first two odds patterns.
fallbackNames(res) ==
  IF Len(res.teams) >= 2
    THEN <<OrElse(res.teams[1], StrTeam1), OrElse(res.teams[2], StrTeam2)>>
  ELSE IF Len(res.fighters) >= 2
    THEN <<OrElse(res.fighters[1].name, StrFighter1),
           OrElse(res.fighters[2].name, StrFighter2)>>
  ELSE IF Len(res.playerProps) >= 2
    THEN <<OrElse(res.playerProps[1].player, StrPlayer1),
           OrElse(res.playerProps[2].player, StrPlayer2)>>
  ELSE <<StrTeam1, StrTeam2>>

\* fallbackEntries pushing one entry for every filtered pattern.
fallbackEntriesAll(res, moneylines) ==
  [k \in 1..Len(moneylines) |->
     [team |-> fallbackNames(res)[IF k = 1 THEN 1 ELSE 2], odds |-> moneylines[k]]]

\* The entries the fallback pushes for the filtered patterns `moneylines`.
fallbackEntries(res, moneylines) ==
  <<[team |-> fallbackNames(res)[1], odds |-> moneylines[1]],
    [team |-> fallbackNames(res)[2], odds |-> moneylines[2]]>>

\* fallbackApplies without the test result.moneyline.length === 0.
fallbackAppliesAlways(res, odds) == Len(odds) >= 2

\* if (result.moneyline.length === 0 && oddsData.odds && oddsData.odds.length >= 2)
fallbackApplies(res, odds) == Len(res.moneyline) = 0 /\ Len(odds) >= 2

\* "If no structured data found, try to extract from odds patterns".  Only
\* the team branch also pushes to keyOdds.
fallbackMoneyline(res, odds) ==
  IF fallbackApplies(res, odds)
    THEN LET moneylines == SelectSeq(odds, isMoneylineOdd)
         IN  IF Len(moneylines) >= 2
               THEN [res EXCEPT
                       !.moneyline = @ \o fallbackEntries(res, moneylines),
                       !.keyOdds =
                         IF Len(res.teams) >= 2
                           THEN @ \o <<[type |-> StrMoneyline,
                                        description |-> fallbackNames(res)[1],
                                        value |-> moneylines[1]],
                                       [type |-> StrMoneyline,
                                        description |-> fallbackNames(res)[2],
                                        value |-> moneylines[2]]>>
                           ELSE @]
               ELSE res
    ELSE res

\* The try block: the result built so far, and whether an exception left
\* the block.  articleTitle.toLowerCase() throws on a missing title, before
\* anything is added to the result.
tryBody(oddsData, articleTitle) ==
  IF articleTitle = Undefined
    THEN [result |-> EmptyResult, threw |-> TRUE]
    ELSE [result |->
            fallbackMoneyline(
              parseTables([EmptyResult EXCEPT
                             !.teams = findTeams(toLowerCase(articleTitle))],
                          oddsData.tables),
              oddsData.odds),
          threw |-> FALSE]

\* catch (error) { logger.error(...) }  return result;
parseOddsData(oddsData, articleTitle) ==
  [result |-> tryBody(oddsData, articleTitle).result, raised |-> FALSE]

----------------------------------------------------------------------------
(* Inputs of parseOddsData: article titles, and the tables and odds        *)
(* patterns that extractOddsFromArticle writes (every cell and header is   *)
(* textContent.trim(), every row has at least one cell).                   *)

MaxTableLines == 4
MaxOdds == 3

TitleUfc      == <<"U","F","C"," ","3","0","0",":"," ","M","a","i","n"," ","C","a","r","d"," ","O","d","d","s">>
TitleLakers   == <<"L","a","k","e","r","s"," ","v","s"," ","W","a","r","r","i","o","r","s"," ","-"," ","N","B","A"," ","G","a","m","e"," ","T","o","n","i","g","h","t">>
TitleThree    == <<"C","h","i","e","f","s",","," ","B","i","l","l","s"," ","a","n","d"," ","E","a","g","l","e","s"," ","F","u","t","u","r","e","s">>
TitleWashington == <<"W","a","s","h","i","n","g","t","o","n"," ","C","o","m","m","a","n","d","e","r","s"," ","P","r","e","v","i","e","w">>

\* A feed file is read with JSON.parse and not validated: an article may
\* lack its title.
Titles == <<TitleUfc, Undefined, TitleLakers, TitleThree, TitleWashington>>

CellTeam    == <<"T","e","a","m">>
CellChiefs  == <<"C","h","i","e","f","s">>
CellEagles  == <<"E","a","g","l","e","s">>
CellBills   == <<"B","i","l","l","s">>
CellOdds    == <<"O","d","d","s">>
CellFighter == <<"F","i","g","h","t","e","r">>
CellPlayer  == <<"P","l","a","y","e","r">>
CellPointSpread == <<"P","o","i","n","t"," ","S","p","r","e","a","d">>

\* ["Chiefs", "-2.5 (-110)", "-140", "48.5"]
RowChiefs == <<CellChiefs, <<"-","2",".","5"," ","(","-","1","1","0",")">>,
               <<"-","1","4","0">>, <<"4","8",".","5">>>>
\* ["Eagles", "+3 (-105)", "+120", "O/U 47"]
RowEagles == <<CellEagles, <<"+","3"," ","(","-","1","0","5",")">>,
               <<"+","1","2","0">>, <<"O","/","U"," ","4","7">>>>
\* The header row of a table built from td cells only.
RowHeaderEcho == <<CellTeam, StrSpread, StrMoneyline, StrTotal>>
\* ["Bills", "PK", "", "N/A"]: no spread, moneyline or total can be read.
RowBills == <<CellBills, <<"P","K">>, <<>>, <<"N","/","A">>>>
\* ["", "Lakers", "+200"]: three cells, the first one empty.
RowShort == <<<<>>, <<"L","a","k","e","r","s">>, <<"+","2","0","0">>>>

Rows == <<RowChiefs, RowEagles, RowBills, RowShort, RowHeaderEcho>>

HeadersOdds    == <<CellTeam, StrSpread, StrMoneyline, StrTotal>>
HeadersFighter == <<CellFighter, CellOdds>>
HeadersPlayer  == <<CellPlayer, CellTeam, CellOdds>>
HeadersMixed   == <<CellPlayer, CellPointSpread, CellFighter, StrTotal>>

Headers == <<<<>>, HeadersOdds, HeadersFighter, HeadersMixed, HeadersPlayer>>

OddPlus150 == <<"+","1","5","0">>
OddPlus7 == <<"+","7">>
\* What the point pattern of the scraper matches in "-3.5 pts"; no bare
\* signed integer.
OddPoints == <<"-","3",".","5"," ","p","t">>

OddsPatterns == <<OddPlus150, OddPlus7, OddPoints>>

\* The sequences over S of length n, and of length at most n.
RECURSIVE SeqsOfLen(_, _)
SeqsOfLen(S, n) ==
  IF n = 0 THEN {<<>>}
  ELSE {Append(s, x) : s \in SeqsOfLen(S, n - 1), x \in S}

SeqsUpTo(S, n) == UNION {SeqsOfLen(S, k) : k \in 0..n}

\* The inputs are enumerated by position in the pools above: a table is
\* [h, rows], h a position in Headers and rows positions in Rows.  The
\* tables that vary freely take the pools but for their last entry.
TableIdsUpTo(n) ==
  {[h |-> h, rows |-> r] :
     h \in 1..(Len(Headers) - 1), r \in SeqsUpTo(1..(Len(Rows) - 1), n)}

\* The lists of tables of at most n lines in all, a table counting one line
\* more than it has rows.
RECURSIVE TableListIds(_)
TableListIds(n) ==
  IF n <= 0 THEN {<<>>}
  ELSE {<<>>} \cup
       UNION {{<<t>> \o rest : rest \in TableListIds(n - 1 - Len(t.rows))}
              : t \in TableIdsUpTo(n - 1)}

\* The table lists over which the titles and the odds patterns vary: no
\* table, two fighters, two unnamed fighters, two players, two unnamed
\* players, two fighters and two other players, an odds table without and
\* with a moneyline, and a table whose first row repeats the column names,
\* without and with th headers.
ScenarioTableListIds ==
  {<<>>,
   <<[h |-> 3, rows |-> <<1, 2>>]>>,
   <<[h |-> 3, rows |-> <<4, 4>>]>>,
   <<[h |-> 5, rows |-> <<1, 2>>]>>,
   <<[h |-> 5, rows |-> <<4, 4>>]>>,
   <<[h |-> 3, rows |-> <<1, 2>>], [h |-> 5, rows |-> <<3, 3>>]>>,
   <<[h |-> 2, rows |-> <<3>>]>>,
   <<[h |-> 2, rows |-> <<3>>], [h |-> 2, rows |-> <<1>>]>>,
   <<[h |-> 1, rows |-> <<5, 1>>]>>,
   <<[h |-> 2, rows |-> <<5, 1>>]>>}

\* Every table list with one title and no odds patterns, and every title
\* and list of odds patterns with the table lists above.
OddsInputIds ==
  {[title |-> 1, tables |-> tl, odds |-> <<>>] : tl \in TableListIds(MaxTableLines)}
  \cup
  {[title |-> t, tables |-> tl, odds |-> o] :
     t \in 1..Len(Titles), tl \in ScenarioTableListIds,
     o \in SeqsUpTo(1..Len(OddsPatterns), MaxOdds)}

TableOf(id) ==
  [headers |-> Headers[id.h], rows |-> [k \in 1..Len(id.rows) |-> Rows[id.rows[k]]]]

OddsDataOf(id) ==
  [tables |-> [k \in 1..Len(id.tables) |-> TableOf(id.tables[k])],
   odds |-> [k \in 1..Len(id.odds) |-> OddsPatterns[id.odds[k]]]]

----------------------------------------------------------------------------
(* save_comprehensive_data.js: the content sanitizer *)

\* The array junkPatterns.  Every pattern is a literal (its only special
\* characters are escaped), so pattern.test(lowerText) is includes.
junkPatterns ==
  <<
    <<"g","a","m","b","l","i","n","g"," ","p","r","o","b","l","e","m","?"," ","c","a","l","l">>,
    <<"1","-","8","0","0","-","g","a","m","b","l","e","r">>,
    <<"g","a","m","b","l","i","n","g","h","e","l","p","l","i","n","e","m","a",".","o","r","g">>,
    <<"c","c","p","g",".","o","r","g">>,
    <<"m","d","g","a","m","b","l","i","n","g","h","e","l","p",".","o","r","g">>,
    <<"g","a","m","b","l","e","a","w","a","r","e",".","o","r","g">>,
    <<"n","c","p","g","a","m","b","l","i","n","g",".","o","r","g">>,
    <<"g","a","m","c","a","r","e",".","o","r","g",".","u","k">>,
    <<"n","e","w"," ","c","u","s","t","o","m","e","r","s"," ","o","n","l","y">>,
    <<"d","e","p","o","s","i","t"," ","m","i","n","."," ","$","1","0">>,
    <<"p","l","a","c","e"," ","f","i","r","s","t"," ","b","e","t">>,
    <<"g","e","t"," ","$","1","5","0"," ","i","n"," ","b","o","n","u","s"," ","b","e","t","s">>,
    <<"t","e","r","m","s"," ","a","n","d"," ","c","o","n","d","i","t","i","o","n","s">>,
    <<"e","l","i","g","i","b","i","l","i","t","y"," ","r","e","s","t","r","i","c","t","i","o","n","s"," ","a","p","p","l","y">>,
    <<"v","o","i","d"," ","i","n">>,
    <<"2","1","+"," ","a","n","d"," ","p","r","e","s","e","n","t"," ","i","n">>,
    <<"s","p","o","n","s","o","r","e","d"," ","b","y">>,
    <<"o","n"," ","b","e","h","a","l","f"," ","o","f">>,
    <<"m","u","s","t"," ","r","e","g","i","s","t","e","r"," ","n","e","w"," ","a","c","c","o","u","n","t">>,
    <<"s","i","n","g","l","e","-","u","s","e"," ","a","n","d"," ","n","o","n","-","w","i","t","h","d","r","a","w","a","b","l","e">>,
    <<"b","o","n","u","s"," ","b","e","t","s"," ","e","x","p","i","r","e">>,
    <<"s","t","a","k","e"," ","r","e","m","o","v","e","d"," ","f","r","o","m"," ","p","a","y","o","u","t">>,
    <<"s","p","o","r","t","s","b","o","o","k",".","d","r","a","f","t","k","i","n","g","s",".","c","o","m">>,
    <<"t","h","e"," ","h","a","n","d","i","c","a","p","p","i","n","g",","," ","s","p","o","r","t","s"," ","o","d","d","s"," ","i","n","f","o","r","m","a","t","i","o","n">>,
    <<"f","o","r"," ","e","n","t","e","r","t","a","i","n","m","e","n","t"," ","p","u","r","p","o","s","e","s"," ","o","n","l","y">>,
    <<"p","l","e","a","s","e"," ","c","o","n","f","i","r","m"," ","t","h","e"," ","w","a","g","e","r","i","n","g"," ","r","e","g","u","l","a","t","i","o","n","s">>,
    <<"u","s","i","n","g"," ","t","h","i","s"," ","i","n","f","o","r","m","a","t","i","o","n"," ","t","o"," ","c","o","n","t","r","a","v","e","n","e">>,
    <<"t","h","e"," ","s","i","t","e"," ","i","s"," ","n","o","t"," ","a","s","s","o","c","i","a","t","e","d"," ","w","i","t","h">>,
    <<"o","d","d","s"," ","s","h","a","r","k"," ","d","o","e","s"," ","n","o","t"," ","t","a","r","g","e","t">>,
    <<"p","l","e","a","s","e"," ","v","i","s","i","t">>,
    <<"g","u","i","d","e","l","i","n","e","s"," ","o","n"," ","r","e","s","p","o","n","s","i","b","l","e"," ","g","a","m","i","n","g">>
  >>

KwTerms      == <<"t","e","r","m","s"," ","a","n","d"," ","c","o","n","d","i","t","i","o","n","s">>
KwOnThisPage == <<"o","n"," ","t","h","i","s"," ","p","a","g","e">>

\* isJunkText without the test against junkPatterns.
isJunkTextNoPatterns(text) == text = <<>> \/ text = Undefined

\* isJunkText: the empty string is falsy, Undefined is no string.
isJunkText(text) ==
  \/ text = <<>>
  \/ text = Undefined
  \/ LET lowerText == toLowerCase(text)
     IN  \E k \in 1..Len(junkPatterns) : includes(lowerText, junkPatterns[k])

\* text.toLowerCase().trim().replace(/\s+/g, ' ')
normalized(text) == collapseSpaces(trim(toLowerCase(text)))

\* isDuplicateText without the look-up in seenTexts.
isDuplicateTextNoSeen(texts, i) == texts[i] = <<>> \/ texts[i] = Undefined

\* isDuplicateText(texts[i], seenTexts) when the filter reaches entry i of the
\* array texts: seenTexts holds the normalized text of every earlier entry
\* that is a non-empty string, since each of them was either added by its
\* own call or found there.
isDuplicateText(texts, i) ==
  \/ texts[i] = <<>>
  \/ texts[i] = Undefined
  \/ \E j \in 1..(i - 1) :
       /\ texts[j] # <<>>
       /\ texts[j] # Undefined
       /\ normalized(texts[j]) = normalized(texts[i])

\* The entries of s at the positions in idx, in the order of s.
KeepAt(s, idx) ==
  [n \in 1..Cardinality(idx) |->
     s[CHOOSE i \in idx : Cardinality({j \in idx : j < i}) = n - 1]]

\* array.filter(x => !isDuplicateText(text of x, seenTexts)), texts being the
\* texts of the entries of array.
filterDuplicates(array, texts) ==
  KeepAt(array, {i \in 1..Len(array) : ~isDuplicateText(texts, i)})

\* The steps that the four functions on arrays of strings share:
\* junk filter, duplicate filter, then text.trim().length > minLength.
cleanStrings(strings, minLength) ==
  LET notJunk == SelectSeq(strings, LAMBDA text : ~isJunkText(text))
      first   == filterDuplicates(notJunk, notJunk)
  IN  SelectSeq(first, LAMBDA text : Len(trim(text)) > minLength)

\* cleanParagraphs without the final .map(text => text.trim()).
cleanParagraphsNoTrim(paragraphs) == cleanStrings(paragraphs, 10)

\* cleanParagraphs returning each paragraph in its normalized spacing:
\* .map(text => text.trim().replace(/\s+/g, ' '))
cleanParagraphsCollapsing(paragraphs) ==
  LET kept == cleanStrings(paragraphs, 10)
  IN  [i \in 1..Len(kept) |-> collapseSpaces(trim(kept[i]))]

cleanParagraphs(paragraphs) ==
  LET kept == cleanStrings(paragraphs, 10)
  IN  [i \in 1..Len(kept) |-> trim(kept[i])]

TextsOf(array) == [i \in 1..Len(array) |-> array[i].text]

cleanHeadings(headings) ==
  LET notJunk == SelectSeq(headings, LAMBDA heading : ~isJunkText(heading.text))
      first   == filterDuplicates(notJunk, TextsOf(notJunk))
      noTerms == SelectSeq(first, LAMBDA heading :
                   ~includes(toLowerCase(heading.text), KwTerms))
      noPage  == SelectSeq(noTerms, LAMBDA heading :
                   ~includes(toLowerCase(heading.text), KwOnThisPage))
  IN  SelectSeq(noPage, LAMBDA heading : Len(trim(heading.text)) > 3)

cleanLists(lists) ==
  LET notJunk == SelectSeq(lists, LAMBDA list : ~isJunkText(list.text))
      first   == filterDuplicates(notJunk, TextsOf(notJunk))
  IN  SelectSeq(first, LAMBDA list : Len(trim(list.text)) > 5)

cleanBettingTrends(trends) == cleanStrings(trends, 10)
cleanPicks(picks) == cleanStrings(picks, 10)
cleanAnalysis(analysis) == cleanStrings(analysis, 10)
cleanKeyInsights(insights) == cleanStrings(insights, 10)

----------------------------------------------------------------------------
(* Inputs of the sanitizer *)

\* The longest collection handed to a sanitizer function.
MaxItems == 3

TextMatchup == <<"G","r","e","a","t"," ","m","a","t","c","h","u","p"," ","t","o","n","i","g","h","t",".">>
TextMatchupPadded == <<"g","r","e","a","t"," "," ","m","a","t","c","h","u","p"," ","t","o","n","i","g","h","t","."," "," ">>
TextHotline == <<"G","a","m","b","l","i","n","g"," ","p","r","o","b","l","e","m","?"," ","C","a","l","l"," ","1","-","8","0","0","-","G","A","M","B","L","E","R",".">>
TextPleaseVisit == <<"P","l","e","a","s","e"," ","v","i","s","i","t"," ","o","u","r"," ","s","p","o","n","s","o","r","s">>
TextPleaseVisitWide == <<"P","l","e","a","s","e"," "," ","v","i","s","i","t"," ","o","u","r"," ","s","p","o","n","s","o","r","s">>
TextOver == <<"O","v","e","r"," ","4","8",".","5">>
TextOverWide == <<"O","v","e","r"," "," "," "," ","4","8",".","5">>
TextOnThisPage == <<" ","O","n"," ","T","h","i","s"," ","P","a","g","e"," ">>

\* Entries of a collection: a sentence, the same sentence in another case and
\* spacing, boilerplate, boilerplate whose wider spacing escapes the pattern,
\* a short text and its wider spelling, a navigation heading, and an entry
\* that is no string.
Texts == <<TextMatchup, TextMatchupPadded, TextHotline, TextPleaseVisit,
           TextPleaseVisitWide, TextOver, TextOverWide, TextOnThisPage,
           Undefined>>

Sanitizers == {"cleanParagraphs", "cleanHeadings", "cleanLists",
               "cleanBettingTrends", "cleanPicks", "cleanAnalysis",
               "cleanKeyInsights"}

LevelH2 == <<"h","2">>

\* The collection with the texts at the positions ids of Texts, in the shape
\* the function reads: strings, {level, text} or {text}.
CollectionOf(sanitizer, ids) ==
  [i \in 1..Len(ids) |->
     IF sanitizer = "cleanHeadings"
       THEN [level |-> LevelH2, text |-> Texts[ids[i]]]
     ELSE IF sanitizer = "cleanLists"
       THEN [text |-> Texts[ids[i]]]
     ELSE Texts[ids[i]]]

----------------------------------------------------------------------------
(* One normalisation of an article: parseOddsData and the sanitizer, with  *)
(* the Set object that each sanitizer call creates                         *)

\* newSet handing on the Set that the previous call left behind.
keptSet(left) == left

\* const seenTexts = new Set(): an empty Set in every call, whatever Set the
\* previous call has left behind.
newSet(left) == {}

\* What seenTexts holds when a sanitizer returns: what it held at the start
\* and the normalized text of every string that passed the junk filter.
seenTextsAfter(texts, seenTexts) ==
  seenTexts \cup
    {normalized(texts[i]) :
       i \in {j \in 1..Len(texts) :
                texts[j] # <<>> /\ texts[j] # Undefined /\ ~isJunkText(texts[j])}}

\* The entries of array of which isDuplicateText does not find the text in
\* what seenTexts holds at the start of the call.
withoutSeen(array, texts, seenTexts) ==
  KeepAt(array, {i \in 1..Len(array) :
                   \/ texts[i] = <<>>
                   \/ texts[i] = Undefined
                   \/ normalized(texts[i]) \notin seenTexts})

\* One normalisation of bundle = [articleTitle, oddsData, fullContent], left
\* being the Set left behind by the sanitizer call before it: the parsed
\* odds, the cleaned sections in the order of cleanedFullContent, and the
\* Set that the last call leaves behind.  Every section of the bundle holds
\* the same texts.
normalizeBundle(bundle, left) ==
  LET strings == bundle.fullContent.paragraphs
      first   == newSet(left)
      later   == newSet(seenTextsAfter(strings, first))
      headings == bundle.fullContent.headings
      lists    == bundle.fullContent.lists
  IN  [output |->
         [parsedOdds |-> parseOddsData(bundle.oddsData, bundle.articleTitle),
          fullContent |->
            [paragraphs    |-> cleanParagraphs(withoutSeen(strings, strings, first)),
             headings      |-> cleanHeadings(withoutSeen(headings, TextsOf(headings), later)),
             lists         |-> cleanLists(withoutSeen(lists, TextsOf(lists), later)),
             bettingTrends |-> cleanBettingTrends(withoutSeen(strings, strings, later)),
             picks         |-> cleanPicks(withoutSeen(strings, strings, later)),
             analysis      |-> cleanAnalysis(withoutSeen(strings, strings, later)),
             keyInsights   |-> cleanKeyInsights(withoutSeen(strings, strings, later))]],
       seenTexts |-> seenTextsAfter(strings, later)]

----------------------------------------------------------------------------
(* puppeteer_rss.js: the article loop, and saveComprehensiveData *)

StrError == <<"E","r","r","o","r">>

\* The index after \d+\.?\d* tried at i; i itself when s[i] is no digit.
numberEnd(s, i) ==
  LET d1 == DigitsEnd(s, i)
  IN  IF d1 = i THEN i
      ELSE DigitsEnd(s, IF At(s, d1) = "." THEN d1 + 1 ELSE d1)

\* The word, given in lower case, stands at position i of s in any case
\* (flag i of the patterns).
wordAt(s, i, word) ==
  /\ i >= 1
  /\ i + Len(word) - 1 <= Len(s)
  /\ toLowerCase(SubSeq(s, i, i + Len(word) - 1)) = word

\* The four patterns of oddsPatterns tried at position i of s: the index
\* after the match, or 0 when the pattern does not match there.  In each
\* pattern a number is followed by white space or a letter, so that its
\* greedy match is the only one that can succeed.
\*   1  /([+-]\d+\.?\d*)\s*(point|pt|pts)/gi
\*   2  /(?:o\/u|over\/under|total)\s*(\d+\.?\d*)/gi
\*   3  /([+-]\d{3,4})/g
\*   4  /(\d+\.?\d*)\s*to\s*(\d+\.?\d*)/gi
oddsPatternEnd(p, s, i) ==
  CASE p = 1 ->
         LET n == numberEnd(s, i + 1)
             w == SpacesEnd(s, n)
         IN  IF ~(IsSign(At(s, i)) /\ n > i + 1) THEN 0
             ELSE IF wordAt(s, w, <<"p","o","i","n","t">>) THEN w + 5
             ELSE IF wordAt(s, w, <<"p","t">>) THEN w + 2
             ELSE IF wordAt(s, w, <<"p","t","s">>) THEN w + 3
             ELSE 0
    [] p = 2 ->
         LET k == IF wordAt(s, i, <<"o","/","u">>) THEN 3
                  ELSE IF wordAt(s, i, <<"o","v","e","r","/","u","n","d","e","r">>) THEN 10
                  ELSE IF wordAt(s, i, <<"t","o","t","a","l">>) THEN 5
                  ELSE 0
             w == SpacesEnd(s, i + k)
             n == numberEnd(s, w)
         IN  IF k > 0 /\ n > w THEN n ELSE 0
    [] p = 3 ->
         LET d == DigitsEnd(s, i + 1)
         IN  IF IsSign(At(s, i)) /\ d >= i + 4
               THEN (IF d >= i + 5 THEN i + 5 ELSE d)
               ELSE 0
    [] p = 4 ->
         LET n1 == numberEnd(s, i)
             w1 == SpacesEnd(s, n1)
             w2 == SpacesEnd(s, w1 + 2)
             n2 == numberEnd(s, w2)
         IN  IF n1 > i /\ wordAt(s, w1, <<"t","o">>) /\ n2 > w2 THEN n2 ELSE 0

\* data.text.match(pattern) for a pattern with flag g, from position i on:
\* the matched substrings from left to right, each scan resuming where the
\* previous match ended; <<>> where match returns null.
RECURSIVE matches(_, _, _)
matches(p, text, i) ==
  LET at == {j \in i..Len(text) : oddsPatternEnd(p, text, j) > 0}
  IN  IF at = {} THEN <<>>
      ELSE LET j == CHOOSE k \in at : \A l \in at : k <= l
               e == oddsPatternEnd(p, text, j)
           IN  <<SubSeq(text, j, e - 1)>> \o matches(p, text, e)

\* scannedOdds with the patterns taken from the last to the first.
scannedOddsLastFirst(text) ==
  matches(4, text, 1) \o matches(3, text, 1) \o matches(2, text, 1)
    \o matches(1, text, 1)

\* oddsPatterns.forEach(pattern => { ... data.odds.push(...matches) }) on
\* data.odds = []
scannedOdds(text) ==
  matches(1, text, 1) \o matches(2, text, 1) \o matches(3, text, 1)
    \o matches(4, text, 1)

\* The object built by page.evaluate in extractOddsFromArticle.
extracted(page, articleUrl) ==
  [title |-> page.title, url |-> articleUrl, odds |-> scannedOdds(page.text),
   tables |-> page.tables, text |-> page.text]

\* The object returned by the catch block of extractOddsFromArticle.
errorMarker(articleUrl, message) ==
  [title |-> StrError, url |-> articleUrl, odds |-> <<>>, tables |-> <<>>,
   text |-> <<>>, error |-> message]

\* oddsData.fullContent?.<section> || []: the scraper sets no fullContent.
fullContentSection(oddsData, section) ==
  IF "fullContent" \in DOMAIN oddsData THEN oddsData.fullContent[section] ELSE <<>>

EmptyAiAnalysis ==
  [keyInsights |-> <<>>, bettingRecommendations |-> <<>>, trends |-> <<>>,
   riskAssessment |-> <<>>, summary |-> <<>>]

\* The callback of enhancedData.articlesWithOdds?.map in saveComprehensiveData.
cleanedArticle(article) ==
  LET rssItem  == article.rssItem
      oddsData == article.oddsData
  IN  [title    |-> rssItem.title,
       link     |-> rssItem.link,
       pubDate  |-> rssItem.pubDate,
       category |-> rssItem.category,
       fullContent |->
         [paragraphs    |-> cleanParagraphs(fullContentSection(oddsData, "paragraphs")),
          headings      |-> cleanHeadings(fullContentSection(oddsData, "headings")),
          lists         |-> cleanLists(fullContentSection(oddsData, "lists")),
          bettingTrends |-> cleanBettingTrends(fullContentSection(oddsData, "bettingTrends")),
          picks         |-> cleanPicks(fullContentSection(oddsData, "picks")),
          analysis      |-> cleanAnalysis(fullContentSection(oddsData, "analysis")),
          keyInsights   |-> cleanKeyInsights(fullContentSection(oddsData, "keyInsights"))],
       oddsData |-> [tables |-> oddsData.tables, odds |-> oddsData.odds,
                     text |-> oddsData.text],
       aiAnalysis |-> EmptyAiAnalysis]

\* saveComprehensiveData(enhancedData), but for metadata.lastUpdated.  No
\* statement of the body throws on what the article loop writes, where every
\* article has an rssItem and an oddsData object.
saveComprehensiveData(enhancedData) ==
  LET cleanedArticles ==
        [i \in 1..Len(enhancedData.articlesWithOdds) |->
           cleanedArticle(enhancedData.articlesWithOdds[i])]
  IN  [metadata |-> [totalArticles |-> Len(cleanedArticles)],
       articles |-> cleanedArticles]

----------------------------------------------------------------------------
(* Inputs of the article loop *)

\* The most items in a feed.
MaxArticles == 3

LinkA == <<"/","a">>
LinkB == <<"/","b">>
PubDate == <<"M","o","n">>
CategoryNfl == <<"N","F","L">>

\* Items as parseRSSToJSON returns them: every property a string.
FeedItems ==
  <<[title |-> TitleLakers, link |-> LinkA, pubDate |-> PubDate, category |-> CategoryNfl],
    [title |-> TitleThree, link |-> LinkB, pubDate |-> PubDate, category |-> <<>>]>>

TextBody == <<"C","h","i","e","f","s"," ","-","1","4","0">>

\* What an article page holds when it loads: document.title, the content
\* text and the tables.
Pages ==
  <<[title |-> TitleLakers, text |-> <<>>, tables |-> <<>>],
    [title |-> TitleThree, text |-> TextBody,
     tables |-> <<[headers |-> HeadersOdds, rows |-> <<RowChiefs>>]>>]>>

MsgTimeout == <<"N","a","v","i","g","a","t","i","o","n"," ","t","i","m","e","o","u","t">>
MsgRefused == <<"n","e","t",":",":","E","R","R","_","C","O","N","N","E","C","T","I","O","N","_","R","E","F","U","S","E","D">>

\* error.message of what page.goto or page.evaluate throws.
ErrorMessages == <<MsgTimeout, MsgRefused>>

----------------------------------------------------------------------------
(* RSSFeedAgent.extractSport *)

\* extractSport looking at the five checks from the last to the first.
extractSportLastFirst(title, description) ==
  LET text == title \o <<" ">> \o description
  IN  IF includes(text, <<"s","o","c","c","e","r">>) \/ includes(text, <<"f","i","f","a">>)
        THEN <<"soccer">>
      ELSE IF includes(text, <<"n","h","l">>) \/ includes(text, <<"h","o","c","k","e","y">>)
        THEN <<"icehockey_nhl">>
      ELSE IF includes(text, <<"m","l","b">>) \/ includes(text, <<"b","a","s","e","b","a","l","l">>)
        THEN <<"baseball_mlb">>
      ELSE IF includes(text, <<"n","f","l">>) \/ includes(text, <<"f","o","o","t","b","a","l","l">>)
        THEN <<"americanfootball_nfl">>
      ELSE IF includes(text, <<"n","b","a">>) \/ includes(text, <<"b","a","s","k","e","t","b","a","l","l">>)
        THEN <<"basketball_nba">>
      ELSE <<>>

\* extractSport(title, description): <<the sport key>>, or <<>> for null.
extractSport(title, description) ==
  LET text == title \o <<" ">> \o description
  IN  IF includes(text, <<"n","b","a">>) \/ includes(text, <<"b","a","s","k","e","t","b","a","l","l">>)
        THEN <<"basketball_nba">>
      ELSE IF includes(text, <<"n","f","l">>) \/ includes(text, <<"f","o","o","t","b","a","l","l">>)
        THEN <<"americanfootball_nfl">>
      ELSE IF includes(text, <<"m","l","b">>) \/ includes(text, <<"b","a","s","e","b","a","l","l">>)
        THEN <<"baseball_mlb">>
      ELSE IF includes(text, <<"n","h","l">>) \/ includes(text, <<"h","o","c","k","e","y">>)
        THEN <<"icehockey_nhl">>
      ELSE IF includes(text, <<"s","o","c","c","e","r">>) \/ includes(text, <<"f","i","f","a">>)
        THEN <<"soccer">>
      ELSE <<>>

----------------------------------------------------------------------------
(* Inputs of extractSport: the lower-cased title and description of an item *)

\* The most words in a title.
MaxWords == 2

SportWords ==
  <<<<"n","b","a">>, <<"f","o","o","t","b","a","l","l">>, <<"m","l","b">>, <<"h","o","c","k","e","y">>, <<"f","i","f","a">>, <<"b","a","s","k","e","t","b","a","l","l">>,
    <<"s","o","c","c","e","r">>, <<"g","a","m","e">>>>

SportDescriptions ==
  <<<<>>, <<"n","h","l"," ","o","d","d","s"," ","a","n","d"," ","p","i","c","k","s">>, <<"b","a","s","e","b","a","l","l"," ","p","r","e","v","i","e","w">>>>

\* The words joined by single spaces.
RECURSIVE JoinWords(_)
JoinWords(words) ==
  IF words = <<>> THEN <<>>
  ELSE IF Len(words) = 1 THEN words[1]
  ELSE words[1] \o <<" ">> \o JoinWords(Tail(words))

----------------------------------------------------------------------------
(* Inputs of the odds patterns: the content text of an article page *)

\* The most pieces in a content text.
MaxPieces == 3

TextPieces ==
  <<<<"+","1","5","0">>,
    <<"-","3",".","5"," ","p","t","s">>,
    <<"T","o","t","a","l"," ","4","5",".","5">>,
    <<"3"," ","t","o"," ","1">>,
    <<"+","1","2","3","4","5">>,
    <<"O","/","U"," ","4","7">>,
    <<"-","1","1","0"," ","P","o","i","n","t">>,
    <<"C","h","i","e","f","s">>>>

----------------------------------------------------------------------------
(* Inputs of a repeated normalisation *)

\* The most texts in a section of a bundle.
MaxBundleTexts == 2

\* The bundles by position in the pools: no title or the title of three
\* teams; no table, two fighters, or an odds table with a moneyline; no odds
\* pattern or two of them; and in every section the same texts, out of a
\* text, the same text with more white space, a junk text and a missing
\* text.
BundleIds ==
  {[odds |-> [title |-> t, tables |-> tl, odds |-> o], texts |-> x] :
     t \in {2, 4},
     tl \in {<<>>,
             <<[h |-> 3, rows |-> <<1, 2>>]>>,
             <<[h |-> 2, rows |-> <<3>>], [h |-> 2, rows |-> <<1>>]>>},
     o \in {<<>>, <<1, 2>>},
     x \in SeqsUpTo({1, 2, 3, 9}, MaxBundleTexts)}

BundleOf(id) ==
  [articleTitle |-> Titles[id.odds.title],
   oddsData |-> OddsDataOf(id.odds),
   fullContent |->
     [paragraphs |-> CollectionOf("cleanParagraphs", id.texts),
      headings   |-> CollectionOf("cleanHeadings", id.texts),
      lists      |-> CollectionOf("cleanLists", id.texts)]]

----------------------------------------------------------------------------
(* AI enrichment: processSportsDataWithAI and AIService.analyzeAllArticles *)

\* enhancedArticle holding the analysis alone.
enhancedArticleBare(article, aiAnalysis) == [aiAnalysis |-> aiAnalysis]

\* { ...article, aiAnalysis }: the properties of article, and aiAnalysis in
\* place of the one that article may have.
enhancedArticle(article, aiAnalysis) ==
  [f \in DOMAIN article \cup {"aiAnalysis"} |->
     IF f = "aiAnalysis" THEN aiAnalysis ELSE article[f]]

\* The file ai_enhanced_sports_data.json, but for lastAIUpdate.
aiEnhancedData(data, enhancedArticles) ==
  [metadata |-> data.metadata, articles |-> enhancedArticles,
   aiProcessed |-> TRUE, totalArticlesAnalyzed |-> Len(enhancedArticles)]

\* The most articles given to the enrichment.
MaxAiArticles == 3

\* Articles as comprehensive_sports_data.json holds them, written out: what
\* saveComprehensiveData makes of the first item of FeedItems with the first
\* page of Pages and of the second item with the second page; and an entry
\* that is null.
AiArticles ==
  <<[title |-> TitleLakers, link |-> LinkA, pubDate |-> PubDate,
     category |-> CategoryNfl,
     fullContent |->
       [paragraphs |-> <<>>, headings |-> <<>>, lists |-> <<>>,
        bettingTrends |-> <<>>, picks |-> <<>>, analysis |-> <<>>,
        keyInsights |-> <<>>],
     oddsData |-> [tables |-> <<>>, odds |-> <<>>, text |-> <<>>],
     aiAnalysis |-> EmptyAiAnalysis],
    [title |-> TitleThree, link |-> LinkB, pubDate |-> PubDate,
     category |-> <<>>,
     fullContent |->
       [paragraphs |-> <<>>, headings |-> <<>>, lists |-> <<>>,
        bettingTrends |-> <<>>, picks |-> <<>>, analysis |-> <<>>,
        keyInsights |-> <<>>],
     oddsData |-> [tables |-> <<[headers |-> HeadersOdds, rows |-> <<RowChiefs>>]>>,
                   odds |-> <<<<"-","1","4","0">>>>, text |-> TextBody],
     aiAnalysis |-> EmptyAiAnalysis],
    [missing |-> TRUE]>>

\* What the model answers, parsed: any object; here two with the properties
\* that getRSSFeed reads.
AiAnalyses ==
  <<[summary |-> <<"C","h","i","e","f","s"," ","-","3">>, confidencePercentage |-> 85,
     keyInsights |-> <<<<"L","i","n","e"," ","m","o","v","e","d">>, <<"S","h","a","r","p"," ","m","o","n","e","y">>>>,
     riskAssessment |-> <<"L","o","w">>,
     generalConsensus |-> <<"C","h","i","e","f","s">>,
     blackSwanEvents |-> <<<<"I","n","j","u","r","y">>>>],
    [summary |-> <<>>, confidencePercentage |-> 0, keyInsights |-> <<>>,
     riskAssessment |-> <<"H","i","g","h">>, generalConsensus |-> <<>>,
     blackSwanEvents |-> <<>>]>>

----------------------------------------------------------------------------
(* RSSFeedAgent.getRSSFeed.  A character outside ASCII is one element,      *)
(* written by its name in parentheses.                                     *)

\* array.join(separator)
RECURSIVE join(_, _)
join(array, separator) ==
  IF array = <<>> THEN <<>>
  ELSE IF Len(array) = 1 THEN array[1]
  ELSE array[1] \o separator \o join(Tail(array), separator)

\* The decimal digits of a natural number, as a template literal prints it.
RECURSIVE numberString(_)
numberString(n) ==
  IF n < 10 THEN <<<<"0","1","2","3","4","5","6","7","8","9">>[n + 1]>>
  ELSE numberString(n \div 10) \o numberString(n % 10)

\* `\n   (bullet) ${name}: ${odds}`
bulletLine(name, odds) ==
  <<"\n"," "," "," ","(bullet)"," ">> \o name \o <<":"," ">> \o odds

teamsSection(parsedOdds) ==
  IF Len(parsedOdds.teams) > 0
    THEN <<"\n","\n","(football)"," ","*","*","T","e","a","m","s",":","*",
           "*"," ">>
         \o join(parsedOdds.teams, <<" ","v","s"," ">>)
    ELSE <<>>

spreadSection(parsedOdds) ==
  IF Len(parsedOdds.spread) > 0
    THEN <<"\n","(ruler)"," ","*","*","S","p","r","e","a","d",":","*","*",
           " ">>
         \o join([i \in 1..Len(parsedOdds.spread) |->
                    LET sp == parsedOdds.spread[i]
                    IN  sp.team \o <<" ">> \o sp.line \o <<" ","(">> \o sp.odds \o <<")">>],
                 <<","," ">>)
    ELSE <<>>

moneylineSection(parsedOdds) ==
  IF Len(parsedOdds.moneyline) > 0
    THEN <<"\n","(money bag)"," ","*","*","M","o","n","e","y","l","i","n",
           "e",":","*","*"," ">>
         \o join([i \in 1..Len(parsedOdds.moneyline) |->
                    LET ml == parsedOdds.moneyline[i]
                    IN  ml.team \o <<" ">> \o ml.odds],
                 <<","," ">>)
    ELSE <<>>

totalSection(parsedOdds) ==
  IF Len(parsedOdds.total) > 0
    THEN LET total == parsedOdds.total[1]
         IN  <<"\n","(bar chart)"," ","*","*","T","o","t","a","l",":","*",
               "*"," ">>
             \o total.line \o <<" ","(","O","v","e","r",":"," ">> \o total.over
             \o <<","," ","U","n","d","e","r",":"," ">> \o total.under \o <<")">>
    ELSE <<>>

\* playerPropsSection listing every prop.
playerPropsSectionAll(parsedOdds) ==
  IF Len(parsedOdds.playerProps) > 0
    THEN <<"\n","(bust)"," ","*","*","P","l","a","y","e","r"," ","P","r",
           "o","p","s",":","*","*">>
         \o join([i \in 1..Len(parsedOdds.playerProps) |->
                    LET prop == parsedOdds.playerProps[i]
                    IN  bulletLine(prop.player, prop.odds)], <<>>)
    ELSE <<>>

\* The props shown are playerProps.slice(0, 5).
playerPropsSection(parsedOdds) ==
  LET props == parsedOdds.playerProps
  IN  IF Len(props) > 0
        THEN <<"\n","(bust)"," ","*","*","P","l","a","y","e","r"," ","P",
               "r","o","p","s",":","*","*">>
             \o join([i \in 1..(IF Len(props) < 5 THEN Len(props) ELSE 5) |->
                        bulletLine(props[i].player, props[i].odds)], <<>>)
             \o (IF Len(props) > 5
                   THEN <<"\n"," "," "," ",".",".","."," ","a","n","d"," ">>
                        \o numberString(Len(props) - 5)
                        \o <<" ","m","o","r","e">>
                   ELSE <<>>)
        ELSE <<>>

fightersSection(parsedOdds) ==
  IF Len(parsedOdds.fighters) > 0
    THEN <<"\n","(boxing glove)"," ","*","*","F","i","g","h","t","e","r",
           "s",":","*","*">>
         \o join([i \in 1..Len(parsedOdds.fighters) |->
                    LET fighter == parsedOdds.fighters[i]
                    IN  bulletLine(fighter.name, fighter.odds)], <<>>)
    ELSE <<>>

\* The two lines on the tables and the odds patterns of oddsData.
summaryLines(oddsData) ==
  (IF Len(oddsData.tables) > 0
     THEN <<"\n","\n","(clipboard)"," ","*","*","D","a","t","a"," ","T","a",
            "b","l","e","s",":","*","*"," ">>
          \o numberString(Len(oddsData.tables)) \o <<" ","t","a","b","l",
                                                     "e","(","s",")"," ","e",
                                                     "x","t","r","a","c","t",
                                                     "e","d">>
     ELSE <<>>)
  \o
  (IF Len(oddsData.odds) > 0
     THEN <<"\n","(target)"," ","*","*","O","d","d","s"," ","F","o","u","n",
            "d",":","*","*"," ">>
          \o numberString(Len(oddsData.odds)) \o <<" ","o","d","d","s"," ",
                                                   "p","a","t","t","e","r",
                                                   "n","s"," ","d","e","t",
                                                   "e","c","t","e","d">>
     ELSE <<>>)

StrEnhancedWithOdds == <<"E","n","h","a","n","c","e","d"," ","w","i","t",
                         "h"," ","O","d","d","s">>

\* The callback of enhancedData.articlesWithOdds.forEach: the item pushed.
\* parseOddsData returns its result also when it has caught an exception.
feedItem(article) ==
  LET rssItem    == article.rssItem
      oddsData   == article.oddsData
      parsedOdds == parseOddsData(oddsData, rssItem.title).result
  IN  [title |-> rssItem.title,
       link |-> rssItem.link,
       description |->
         rssItem.description
           \o teamsSection(parsedOdds) \o spreadSection(parsedOdds)
           \o moneylineSection(parsedOdds) \o totalSection(parsedOdds)
           \o playerPropsSection(parsedOdds) \o fightersSection(parsedOdds)
           \o summaryLines(oddsData),
       pubDate |-> rssItem.pubDate,
       category |-> OrElse(rssItem.category, StrEnhancedWithOdds),
       odds |-> parsedOdds]

\* The callback of aiData.articles.forEach: the item pushed.  The articles
\* of the file carry no description, and each an oddsData and an aiAnalysis.
aiFeedItem(article) ==
  LET ai == article.aiAnalysis
  IN  [title |-> article.title,
       link |-> article.link,
       description |->
         (IF Len(ai.keyInsights) > 0
            THEN <<"\n","\n","(robot)"," ","*","*","A","I"," ","I","n","s",
                   "i","g","h","t","s",":","*","*">>
                 \o join([i \in 1..Len(ai.keyInsights) |->
                            <<"\n","(bullet)"," ">> \o ai.keyInsights[i]], <<>>)
            ELSE <<>>)
         \o <<"\n","\n","(bar chart)"," ","*","*","A","I"," ","C","o","n",
              "f","i","d","e","n","c","e",":","*","*"," ">>
         \o numberString(ai.confidencePercentage) \o <<"%">>
         \o <<"\n","(warning)"," ","*","*","R","i","s","k"," ","L","e","v",
              "e","l",":","*","*"," ">> \o ai.riskAssessment
         \o (IF ai.generalConsensus # <<>>
               THEN <<"\n","\n","(target)"," ","*","*","M","a","r","k","e",
                      "t"," ","C","o","n","s","e","n","s","u","s",":","*","*",
                      " ">>
                    \o ai.generalConsensus
               ELSE <<>>)
         \o (IF Len(ai.blackSwanEvents) > 0
               THEN <<"\n","\n","(high voltage)"," ","*","*","B","l","a",
                      "c","k"," ","S","w","a","n"," ","E","v","e","n","t","s",
                      ":","*","*">>
                    \o join([i \in 1..Len(ai.blackSwanEvents) |->
                               <<"\n","(bullet)"," ">> \o ai.blackSwanEvents[i]], <<>>)
               ELSE <<>>),
       pubDate |-> article.pubDate,
       category |-> article.category,
       odds |-> parseOddsData(article.oddsData, article.title).result,
       aiAnalysis |-> ai]

\* a || new Date().toISOString() on a timestamp that the file may lack.
timestampOr(stored, now) == IF Len(stored) > 0 THEN stored[1] ELSE now

\* getRSSFeed taking the current time whenever it reads rss_with_odds.json.
lastUpdatedNow(aiFile, rssFile, now) ==
  IF Len(aiFile) > 0 THEN timestampOr(aiFile[1].lastAIUpdate, now) ELSE now

\* lastUpdated of the feed returned: aiData.lastAIUpdate || now with the AI
\* file, enhancedData.lastUpdated || now without it.
lastUpdated(aiFile, rssFile, now) ==
  IF Len(aiFile) > 0
    THEN timestampOr(aiFile[1].lastAIUpdate, now)
    ELSE timestampOr(rssFile[1].lastUpdated, now)

\* getRSSFeed reading rss_with_odds.json whenever that file exists.
getRSSFeedScraperFirst(aiFile, rssFile, now) ==
  IF Len(rssFile) > 0
    THEN [raised |-> FALSE,
          feed |-> <<[items |-> [i \in 1..Len(rssFile[1].articlesWithOdds) |->
                                   feedItem(rssFile[1].articlesWithOdds[i])],
                      lastUpdated |-> timestampOr(rssFile[1].lastUpdated, now)]>>]
  ELSE IF Len(aiFile) = 0
    THEN [raised |-> TRUE, feed |-> <<>>]
  ELSE [raised |-> FALSE,
        feed |-> <<[items |-> [i \in 1..Len(aiFile[1].articles) |->
                                 aiFeedItem(aiFile[1].articles[i])],
                    lastUpdated |-> timestampOr(aiFile[1].lastAIUpdate, now)]>>]

\* getRSSFeed() at time now, a file being <<>> where it does not exist and
\* <<its content>> where it does: the feed returned but for its title,
\* description and link, or the exception thrown when neither file exists.
getRSSFeed(aiFile, rssFile, now) ==
  IF Len(aiFile) > 0
    THEN [raised |-> FALSE,
          feed |-> <<[items |-> [i \in 1..Len(aiFile[1].articles) |->
                                   aiFeedItem(aiFile[1].articles[i])],
                      lastUpdated |-> lastUpdated(aiFile, rssFile, now)]>>]
  ELSE IF Len(rssFile) = 0
    THEN [raised |-> TRUE, feed |-> <<>>]
  ELSE [raised |-> FALSE,
        feed |-> <<[items |-> [i \in 1..Len(rssFile[1].articlesWithOdds) |->
                                 feedItem(rssFile[1].articlesWithOdds[i])],
                    lastUpdated |-> lastUpdated(aiFile, rssFile, now)]>>]

----------------------------------------------------------------------------
(* Inputs of getRSSFeed *)

\* The latest time of day, the most articles in a file, and the most rows
\* of a table of player props.
MaxTime == 3
MaxFileArticles == 1
MaxPropRows == 7

StrPreview == <<"G","a","m","e"," ","p","r","e","v","i","e","w">>

\* The tables of an article by position in the pools: none, an odds table,
\* a table of fighters, a table that is of every kind with another of
\* fighters, a table of every kind with one row less than MaxPropRows, and
\* a table of n player props for each n up to MaxPropRows.
FileTableIds ==
  {<<>>,
   <<[h |-> 2, rows |-> <<1, 2>>]>>,
   <<[h |-> 3, rows |-> <<1, 2>>]>>,
   <<[h |-> 4, rows |-> <<1, 2>>], [h |-> 3, rows |-> <<2>>]>>,
   <<[h |-> 4, rows |-> [k \in 1..(MaxPropRows - 1) |-> ((k - 1) % 2) + 1]]>>}
  \cup {<<[h |-> 5, rows |-> [k \in 1..n |-> ((k - 1) % 3) + 1]]>> :
          n \in 1..MaxPropRows}

\* The articles of rss_with_odds.json by position in the pools: a title
\* without teams, with a description, a category and two odds patterns, or
\* a title with three teams, without them.
FileArticleIds ==
  {[title |-> t, tables |-> tl,
    odds |-> IF t = 1 THEN <<1, 2>> ELSE <<>>, described |-> t = 1] :
     t \in {1, 4}, tl \in FileTableIds}

FileArticleOf(id) ==
  [rssItem |-> [title |-> Titles[id.title], link |-> LinkA,
                description |-> IF id.described THEN StrPreview ELSE <<>>,
                pubDate |-> PubDate,
                category |-> IF id.described THEN CategoryNfl ELSE <<>>],
   oddsData |-> OddsDataOf(id)]

\* The articles of ai_enhanced_sports_data.json.
AiFileArticles ==
  <<enhancedArticle(AiArticles[1], AiAnalyses[1]),
    enhancedArticle(AiArticles[2], AiAnalyses[2])>>

----------------------------------------------------------------------------
(* The state machines *)

VARIABLES
  articleTitle,  \* parseOddsData's argument articleTitle
  oddsData,      \* parseOddsData's argument oddsData: [tables, odds]
  parsed,        \* what the call returned: [result, raised]
  oddsPc,        \* "call" before the call, "done" after it, "idle"
  sanitizer,     \* the sanitizer function called
  sanInput,      \* its argument
  sanOutput,     \* what it returned
  sanPc,         \* "call" before the call, "done" after it, "idle"
  feedItems,     \* jsonData.items
  articlesWithOdds,  \* the array the article loop fills
  rssWithOdds,   \* rss_with_odds.json: <<>> or <<enhancedData>>
  comprehensive, \* comprehensive_sports_data.json: <<>> or <<comprehensiveData>>
  feedPc,        \* "loop", "written", "saved", "idle"
  sportText,     \* extractSport's arguments: [title, description]
  sport,         \* what it returned: <<>> for null, or <<sport key>>
  sportPc,       \* "call" before the call, "done" after it, "idle"
  pageText,      \* data.text of page.evaluate
  pageOdds,      \* data.odds of page.evaluate
  scanPc,        \* "call" before the pattern scans, "done" after them, "idle"
  bundle,        \* the article bundle given to the normalisation
  normalizedRuns,  \* what each normalisation of the bundle returned
  seenTexts,     \* the Set left behind by the last sanitizer call
  repeatPc,      \* "run" while a normalisation is to come, "done", "idle"
  enricher,      \* the function that enriches
  aiArticles,    \* data.articles, or the argument articles
  aiPosition,    \* the position i of the loop, from 1
  enhancedArticles,  \* the array the loop fills
  aiEnhanced,    \* what is written or returned: <<>> or <<value>>
  enrichPc,      \* "loop", "done", "failed", "idle"
  aiFile,        \* ai_enhanced_sports_data.json: <<>> or <<aiData>>
  rssFile,       \* rss_with_odds.json: <<>> or <<enhancedData>>
  now,           \* the time of the call of getRSSFeed
  returned,      \* what getRSSFeed returned: [raised, feed]
  assemblePc,    \* "call" before the call, "done" after it, "idle"
  apiCalls,      \* the requests to the sports routes, in order of arrival
  apiResponses,  \* per request, the responses sent: [status, body]
  gamesFeed,     \* what getRSSFeed gives getGamesFromRSS: [raised, items]
  games,         \* what getGamesFromRSS gave: [raised, games]
  gamesPc,       \* "call" before the call, "done" after it, "idle"
  aiEnhancedJson,  \* ai_enhanced_sports_data.json on disk: <<>> or <<aiData>>
  rssWithOddsJson,  \* rss_with_odds.json on disk: <<>> or <<enhancedData>>
  comprehensiveJson,  \* comprehensive_sports_data.json on disk: <<>> or <<data>>
  clock,         \* the time of day, one more after each run or request
  served,        \* what the last feed request got: [raised, feed]
  servedAt,      \* the time of the last feed request, 0 before the first
  scrapeRunner,  \* whose getRSSWithPuppeteer runs: the script or the agent
  scrapePc,      \* "launch", "fetch", "articles", "alternative", "finally", "done", "idle"
  browser,       \* "none" before the launch, "open", "closed"
  closeCalls,    \* the calls of browser.close() so far
  rawContents,   \* rawContent and rawContent2, as far as fetched
  alternativeFetches,  \* the alternative fetches begun so far
  completion,    \* how the try statement completed: "none", "value", "null"
  scrapeResult,  \* what the run gave its caller: "none", "value", "null", "rejected"
  jobRequests,   \* the requests to /api/rss/update and /api/ai/analyze, in order of arrival
  jobResponses,  \* per request, the responses sent: [status, body]
  jobEvents,     \* per request, what happened in order: "response", "spawn", "threw", "error", "close"
  children,      \* per request, its child: "none", "running", "failed", "exited"
  dbCall,        \* the method of DatabaseService that runs: "transaction", "connect", "initializeTables", "none"
  dbPc,          \* its position: "connect", "begin", "callback", "commit", "rollback", "create", "release", "done", "idle"
  dbCalls,       \* the calls of transaction and of bootstrap so far
  checkedOut,    \* the clients checked out of the pool
  acquired,      \* the clients that the call acquired
  released,      \* the calls of client.release() of the call
  statements,    \* the statements and the callback of the call, in order: [text, ok]
  dbThrown,      \* where the error thrown came from, "none" without one
  dbOutcome,     \* how the method ended: "none", "returned", "threw"
  bootstrapState  \* "none" outside bootstrap, "starting", "with database", "without database"

oddsVars == <<articleTitle, oddsData, parsed, oddsPc>>
sanVars == <<sanitizer, sanInput, sanOutput, sanPc>>
feedVars == <<feedItems, articlesWithOdds, rssWithOdds, comprehensive, feedPc>>
sportVars == <<sportText, sport, sportPc>>
scanVars == <<pageText, pageOdds, scanPc>>
repeatVars == <<bundle, normalizedRuns, seenTexts, repeatPc>>
enrichVars == <<enricher, aiArticles, aiPosition, enhancedArticles, aiEnhanced,
                enrichPc>>
assembleVars == <<aiFile, rssFile, now, returned, assemblePc>>
apiVars == <<apiCalls, apiResponses>>
gamesVars == <<gamesFeed, games, gamesPc>>
pipelineVars == <<aiEnhancedJson, rssWithOddsJson, comprehensiveJson, clock,
                  served, servedAt>>
scrapeVars == <<scrapeRunner, scrapePc, browser, closeCalls, rawContents,
                alternativeFetches, completion, scrapeResult>>
jobsVars == <<jobRequests, jobResponses, jobEvents, children>>
dbVars == <<dbCall, dbPc, dbCalls, checkedOut, acquired, released,
            statements, dbThrown, dbOutcome, bootstrapState>>
\* The variables of the server's routes, the scraper's run and the database.
serviceVars == <<apiVars, gamesVars, pipelineVars, scrapeVars, jobsVars, dbVars>>
\* The variables of the parts added after the first three.
moreVars == <<sportVars, scanVars, repeatVars, enrichVars, assembleVars,
              serviceVars>>
\* The variables of the article pipeline.
earlierVars == <<oddsVars, sanVars, feedVars, sportVars, scanVars, repeatVars,
                 enrichVars, assembleVars>>
vars == <<articleTitle, oddsData, parsed, oddsPc, sanitizer, sanInput,
          sanOutput, sanPc, feedItems, articlesWithOdds, rssWithOdds,
          comprehensive, feedPc, sportText, sport, sportPc, pageText,
          pageOdds, scanPc, bundle, normalizedRuns, seenTexts, repeatPc,
          enricher, aiArticles, aiPosition, enhancedArticles, aiEnhanced,
          enrichPc,
          aiFile, rssFile, now, returned, assemblePc,
          apiCalls, apiResponses,
          gamesFeed, games, gamesPc,
          aiEnhancedJson, rssWithOddsJson, comprehensiveJson, clock, served,
          servedAt,
          scrapeRunner, scrapePc, browser, closeCalls, rawContents,
          alternativeFetches, completion, scrapeResult,
          jobRequests, jobResponses, jobEvents, children,
          dbCall, dbPc, dbCalls, checkedOut, acquired, released, statements,
          dbThrown, dbOutcome, bootstrapState>>

OddsIdle ==
  /\ articleTitle = <<>>
  /\ oddsData = [tables |-> <<>>, odds |-> <<>>]
  /\ parsed = [result |-> EmptyResult, raised |-> FALSE]
  /\ oddsPc = "idle"

SanIdle ==
  /\ sanitizer = "cleanParagraphs"
  /\ sanInput = <<>>
  /\ sanOutput = <<>>
  /\ sanPc = "idle"

FeedIdle ==
  /\ feedItems = <<>>
  /\ articlesWithOdds = <<>>
  /\ rssWithOdds = <<>>
  /\ comprehensive = <<>>
  /\ feedPc = "idle"

SportIdle ==
  /\ sportText = [title |-> <<>>, description |-> <<>>]
  /\ sport = <<>>
  /\ sportPc = "idle"

ScanIdle ==
  /\ pageText = <<>>
  /\ pageOdds = <<>>
  /\ scanPc = "idle"

RepeatIdle ==
  /\ bundle = [articleTitle |-> <<>>, oddsData |-> [tables |-> <<>>, odds |-> <<>>],
               fullContent |-> [paragraphs |-> <<>>, headings |-> <<>>, lists |-> <<>>]]
  /\ normalizedRuns = <<>>
  /\ seenTexts = {}
  /\ repeatPc = "idle"

EnrichIdle ==
  /\ enricher = "processSportsDataWithAI"
  /\ aiArticles = <<>>
  /\ aiPosition = 1
  /\ enhancedArticles = <<>>
  /\ aiEnhanced = <<>>
  /\ enrichPc = "idle"

AssembleIdle ==
  /\ aiFile = <<>>
  /\ rssFile = <<>>
  /\ now = 0
  /\ returned = [raised |-> FALSE, feed |-> <<>>]
  /\ assemblePc = "idle"

ApiIdle ==
  /\ apiCalls = <<>>
  /\ apiResponses = <<>>

GamesIdle ==
  /\ gamesFeed = [raised |-> FALSE, items |-> <<>>]
  /\ games = [raised |-> FALSE, games |-> <<>>]
  /\ gamesPc = "idle"

PipelineIdle ==
  /\ aiEnhancedJson = <<>>
  /\ rssWithOddsJson = <<>>
  /\ comprehensiveJson = <<>>
  /\ clock = 0
  /\ served = [raised |-> FALSE, feed |-> <<>>]
  /\ servedAt = 0

ScrapeIdle ==
  /\ scrapeRunner = "script"
  /\ scrapePc = "idle"
  /\ browser = "none"
  /\ closeCalls = 0
  /\ rawContents = <<>>
  /\ alternativeFetches = 0
  /\ completion = "none"
  /\ scrapeResult = "none"

JobsIdle ==
  /\ jobRequests = <<>>
  /\ jobResponses = <<>>
  /\ jobEvents = <<>>
  /\ children = <<>>

DbIdle ==
  /\ dbCall = "none"
  /\ dbPc = "idle"
  /\ dbCalls = 0
  /\ checkedOut = 0
  /\ acquired = 0
  /\ released = 0
  /\ statements = <<>>
  /\ dbThrown = "none"
  /\ dbOutcome = "none"
  /\ bootstrapState = "none"

ServiceIdle ==
  ApiIdle /\ GamesIdle /\ PipelineIdle /\ ScrapeIdle /\ JobsIdle /\ DbIdle

MoreIdle ==
  SportIdle /\ ScanIdle /\ RepeatIdle /\ EnrichIdle /\ AssembleIdle /\ ServiceIdle

EarlierIdle ==
  /\ OddsIdle /\ SanIdle /\ FeedIdle /\ SportIdle /\ ScanIdle /\ RepeatIdle
  /\ EnrichIdle /\ AssembleIdle

\* All the parts but one of them.
besidesApiVars == <<earlierVars, gamesVars, pipelineVars, scrapeVars,
                     jobsVars, dbVars>>
BesidesApiIdle ==
  /\ EarlierIdle /\ GamesIdle /\ PipelineIdle /\ ScrapeIdle /\ JobsIdle
  /\ DbIdle
besidesGamesVars == <<earlierVars, apiVars, pipelineVars, scrapeVars,
                       jobsVars, dbVars>>
BesidesGamesIdle ==
  /\ EarlierIdle /\ ApiIdle /\ PipelineIdle /\ ScrapeIdle /\ JobsIdle
  /\ DbIdle
besidesPipelineVars == <<earlierVars, apiVars, gamesVars, scrapeVars,
                          jobsVars, dbVars>>
BesidesPipelineIdle ==
  /\ EarlierIdle /\ ApiIdle /\ GamesIdle /\ ScrapeIdle /\ JobsIdle
  /\ DbIdle
besidesScrapeVars == <<earlierVars, apiVars, gamesVars, pipelineVars,
                        jobsVars, dbVars>>
BesidesScrapeIdle ==
  /\ EarlierIdle /\ ApiIdle /\ GamesIdle /\ PipelineIdle /\ JobsIdle
  /\ DbIdle
besidesJobsVars == <<earlierVars, apiVars, gamesVars, pipelineVars,
                      scrapeVars, dbVars>>
BesidesJobsIdle ==
  /\ EarlierIdle /\ ApiIdle /\ GamesIdle /\ PipelineIdle /\ ScrapeIdle
  /\ DbIdle
besidesDbVars == <<earlierVars, apiVars, gamesVars, pipelineVars,
                    scrapeVars, jobsVars>>
BesidesDbIdle ==
  /\ EarlierIdle /\ ApiIdle /\ GamesIdle /\ PipelineIdle /\ ScrapeIdle
  /\ JobsIdle

InitOdds ==
  /\ \E id \in OddsInputIds :
       /\ articleTitle = Titles[id.title]
       /\ oddsData = OddsDataOf(id)
  /\ parsed = [result |-> EmptyResult, raised |-> FALSE]
  /\ oddsPc = "call"
  /\ SanIdle
  /\ FeedIdle
  /\ MoreIdle

\* const parsedOdds = this.parseOddsData(oddsData, rssItem.title)
ParseOddsData ==
  /\ oddsPc = "call"
  /\ parsed' = parseOddsData(oddsData, articleTitle)
  /\ oddsPc' = "done"
  /\ UNCHANGED <<articleTitle, oddsData, sanVars, feedVars, moreVars>>

NextOdds == ParseOddsData

SpecOdds == InitOdds /\ [][NextOdds]_vars

InitSanitizer ==
  /\ \E s \in Sanitizers, ids \in SeqsUpTo(1..Len(Texts), MaxItems) :
       /\ sanitizer = s
       /\ sanInput = CollectionOf(s, ids)
  /\ sanOutput = <<>>
  /\ sanPc = "call"
  /\ OddsIdle
  /\ FeedIdle
  /\ MoreIdle

\* One call of the sanitizer function f, returning output.
Returns(f, output) ==
  /\ sanPc = "call"
  /\ sanitizer = f
  /\ sanOutput' = output
  /\ sanPc' = "done"
  /\ UNCHANGED <<sanitizer, sanInput, oddsVars, feedVars, moreVars>>

CleanParagraphs == Returns("cleanParagraphs", cleanParagraphs(sanInput))
CleanHeadings == Returns("cleanHeadings", cleanHeadings(sanInput))
CleanLists == Returns("cleanLists", cleanLists(sanInput))
CleanBettingTrends == Returns("cleanBettingTrends", cleanBettingTrends(sanInput))
CleanPicks == Returns("cleanPicks", cleanPicks(sanInput))
CleanAnalysis == Returns("cleanAnalysis", cleanAnalysis(sanInput))
CleanKeyInsights == Returns("cleanKeyInsights", cleanKeyInsights(sanInput))

NextSanitizer ==
  \/ CleanParagraphs
  \/ CleanHeadings
  \/ CleanLists
  \/ CleanBettingTrends
  \/ CleanPicks
  \/ CleanAnalysis
  \/ CleanKeyInsights

SpecSanitizer == InitSanitizer /\ [][NextSanitizer]_vars

InitFeed ==
  /\ \E ids \in SeqsUpTo(1..Len(FeedItems), MaxArticles) :
       feedItems = [i \in 1..Len(ids) |-> FeedItems[ids[i]]]
  /\ articlesWithOdds = <<>>
  /\ rssWithOdds = <<>>
  /\ comprehensive = <<>>
  /\ feedPc = "loop"
  /\ OddsIdle
  /\ SanIdle
  /\ MoreIdle

\* One turn of the article loop, extractOddsFromArticle returning oddsData.
Turn(data) ==
  /\ feedPc = "loop"
  /\ Len(articlesWithOdds) < Len(feedItems)
  /\ articlesWithOdds' =
       Append(articlesWithOdds,
              [rssItem |-> feedItems[Len(articlesWithOdds) + 1], oddsData |-> data])
  /\ UNCHANGED <<feedItems, rssWithOdds, comprehensive, feedPc, oddsVars, sanVars,
               moreVars>>

\* The page loads and page.evaluate returns its data.
ExtractOk ==
  \E p \in 1..Len(Pages) :
    Turn(extracted(Pages[p], feedItems[Len(articlesWithOdds) + 1].link))

\* page.goto or page.evaluate throws; the catch block returns the marker.
ExtractFails ==
  \E m \in 1..Len(ErrorMessages) :
    Turn(errorMarker(feedItems[Len(articlesWithOdds) + 1].link, ErrorMessages[m]))

\* fs.writeFileSync('rss_with_odds.json', ...) after the loop.
WriteEnhanced ==
  /\ feedPc = "loop"
  /\ Len(articlesWithOdds) = Len(feedItems)
  /\ rssWithOdds' = <<[items |-> feedItems,
                       articlesWithOdds |-> articlesWithOdds,
                       totalArticlesWithOdds |-> Len(articlesWithOdds)]>>
  /\ feedPc' = "written"
  /\ UNCHANGED <<feedItems, articlesWithOdds, comprehensive, oddsVars, sanVars,
               moreVars>>

\* saveComprehensiveData(enhancedData) on the data the scraper wrote.
SaveComprehensiveData ==
  /\ feedPc = "written"
  /\ comprehensive' = <<saveComprehensiveData(rssWithOdds[1])>>
  /\ feedPc' = "saved"
  /\ UNCHANGED <<feedItems, articlesWithOdds, rssWithOdds, oddsVars, sanVars,
               moreVars>>

NextFeed ==
  \/ ExtractOk
  \/ ExtractFails
  \/ WriteEnhanced
  \/ SaveComprehensiveData

SpecFeed == InitFeed /\ [][NextFeed]_vars

InitSport ==
  /\ \E words \in SeqsUpTo(1..Len(SportWords), MaxWords),
        d \in 1..Len(SportDescriptions) :
       sportText = [title |-> JoinWords([i \in 1..Len(words) |-> SportWords[words[i]]]),
                    description |-> SportDescriptions[d]]
  /\ sport = <<>>
  /\ sportPc = "call"
  /\ OddsIdle
  /\ SanIdle
  /\ FeedIdle
  /\ ScanIdle
  /\ RepeatIdle
  /\ EnrichIdle
  /\ AssembleIdle
  /\ ServiceIdle

\* const sport = this.extractSport(title, description)
ExtractSport ==
  /\ sportPc = "call"
  /\ sport' = extractSport(sportText.title, sportText.description)
  /\ sportPc' = "done"
  /\ UNCHANGED <<sportText, oddsVars, sanVars, feedVars, scanVars, repeatVars,
               enrichVars, assembleVars, serviceVars>>

NextSport == ExtractSport

SpecSport == InitSport /\ [][NextSport]_vars

\* The content text of a page, trimmed (element.textContent.trim()), and
\* data.odds = [].
InitScan ==
  /\ \E pieces \in SeqsUpTo(1..Len(TextPieces), MaxPieces) :
       pageText = JoinWords([i \in 1..Len(pieces) |-> TextPieces[pieces[i]]])
  /\ pageOdds = <<>>
  /\ scanPc = "call"
  /\ OddsIdle
  /\ SanIdle
  /\ FeedIdle
  /\ SportIdle
  /\ RepeatIdle
  /\ EnrichIdle
  /\ AssembleIdle
  /\ ServiceIdle

\* oddsPatterns.forEach(...) inside page.evaluate
ScanOdds ==
  /\ scanPc = "call"
  /\ pageOdds' = pageOdds \o scannedOdds(pageText)
  /\ scanPc' = "done"
  /\ UNCHANGED <<pageText, oddsVars, sanVars, feedVars, sportVars, repeatVars,
               enrichVars, assembleVars, serviceVars>>

NextScan == ScanOdds

SpecScan == InitScan /\ [][NextScan]_vars

\* A bundle is normalised once, and once more.
InitRepeat ==
  /\ \E id \in BundleIds : bundle = BundleOf(id)
  /\ normalizedRuns = <<>>
  /\ seenTexts = {}
  /\ repeatPc = "run"
  /\ OddsIdle
  /\ SanIdle
  /\ FeedIdle
  /\ SportIdle
  /\ ScanIdle
  /\ EnrichIdle
  /\ AssembleIdle
  /\ ServiceIdle

\* One normalisation of the bundle; neither parseOddsData nor a sanitizer
\* assigns to what it is given (filter and map build new arrays).
Normalize ==
  /\ repeatPc = "run"
  /\ LET run == normalizeBundle(bundle, seenTexts)
     IN  /\ normalizedRuns' = Append(normalizedRuns, run.output)
         /\ seenTexts' = run.seenTexts
  /\ repeatPc' = IF Len(normalizedRuns) = 1 THEN "done" ELSE "run"
  /\ UNCHANGED <<bundle, oddsVars, sanVars, feedVars, sportVars, scanVars,
               enrichVars, assembleVars, serviceVars>>

NextRepeat == Normalize

SpecRepeat == InitRepeat /\ [][NextRepeat]_vars

\* data.articles as the script reads it from the file that
\* saveComprehensiveData wrote, or the array given to analyzeAllArticles,
\* where an entry may be null.
InitEnrich ==
  /\ \E e \in {"processSportsDataWithAI", "analyzeAllArticles"} :
       /\ enricher = e
       /\ \E ids \in SeqsUpTo(1..(IF e = "analyzeAllArticles"
                                    THEN Len(AiArticles)
                                    ELSE Len(AiArticles) - 1), MaxAiArticles) :
            aiArticles = [i \in 1..Len(ids) |-> AiArticles[ids[i]]]
  /\ aiPosition = 1
  /\ enhancedArticles = <<>>
  /\ aiEnhanced = <<>>
  /\ enrichPc = "loop"
  /\ OddsIdle
  /\ SanIdle
  /\ FeedIdle
  /\ SportIdle
  /\ ScanIdle
  /\ RepeatIdle
  /\ AssembleIdle
  /\ ServiceIdle

\* One turn of either loop whose analysis returns: the enhanced article is
\* pushed.
AnalyzeArticle ==
  /\ enrichPc = "loop"
  /\ aiPosition <= Len(aiArticles)
  /\ "missing" \notin DOMAIN aiArticles[aiPosition]
  /\ \E a \in 1..Len(AiAnalyses) :
       enhancedArticles' =
         Append(enhancedArticles, enhancedArticle(aiArticles[aiPosition], AiAnalyses[a]))
  /\ aiPosition' = aiPosition + 1
  /\ UNCHANGED <<enricher, aiArticles, aiEnhanced, enrichPc>>
  /\ UNCHANGED <<oddsVars, sanVars, feedVars, sportVars, scanVars, repeatVars,
                 assembleVars, serviceVars>>

\* The analysis that the catch clause of analyzeSportsData returns, in the
\* properties that the feed reads.
fallbackAnalysis ==
  [keyInsights |-> <<<<"U","n","a","b","l","e"," ","t","o"," ","a","n","a",
       "l","y","z","e"," ","d","a","t","a"," ","-"," ","A","I"," ","s","e",
       "r","v","i","c","e"," ","e","r","r","o","r">>>>,
   riskAssessment |-> <<"U","n","a","b","l","e"," ","t","o"," ","a","s","s",
       "e","s","s"," ","-"," ","s","e","r","v","i","c","e"," ","e","r","r",
       "o","r">>,
   summary |-> <<"A","I"," ","a","n","a","l","y","s","i","s"," ","f","a",
       "i","l","e","d","."," ","P","l","e","a","s","e"," ","t","r","y"," ",
       "a","g","a","i","n"," ","l","a","t","e","r",".">>,
   generalConsensus |-> <<"U","n","a","b","l","e"," ","t","o"," ","d","e",
       "t","e","r","m","i","n","e"," ","m","a","r","k","e","t"," ","c","o",
       "n","s","e","n","s","u","s"," ","d","u","e"," ","t","o"," ","a","n",
       "a","l","y","s","i","s"," ","e","r","r","o","r">>,
   blackSwanEvents |-> <<<<"A","n","a","l","y","s","i","s"," ","e","r","r",
       "o","r"," ","p","r","e","v","e","n","t","s"," ","i","d","e","n","t",
       "i","f","i","c","a","t","i","o","n"," ","o","f"," ","u","n","e","x",
       "p","e","c","t","e","d"," ","e","v","e","n","t","s">>>>,
   confidencePercentage |-> 0]

\* analyzeSportsData fails within its try block (no model, the call rejects,
\* the answer is not JSON): its catch clause returns the fallback analysis,
\* and analyzeAllArticles pushes the enhanced article.
AnalysisFallsBack ==
  /\ enrichPc = "loop"
  /\ enricher = "analyzeAllArticles"
  /\ aiPosition <= Len(aiArticles)
  /\ "missing" \notin DOMAIN aiArticles[aiPosition]
  /\ enhancedArticles' =
       Append(enhancedArticles,
              enhancedArticle(aiArticles[aiPosition], fallbackAnalysis))
  /\ aiPosition' = aiPosition + 1
  /\ UNCHANGED <<enricher, aiArticles, aiEnhanced, enrichPc>>
  /\ UNCHANGED <<oddsVars, sanVars, feedVars, sportVars, scanVars, repeatVars,
                 assembleVars, serviceVars>>

\* if (!article) continue; in analyzeAllArticles
SkipMissing ==
  /\ enrichPc = "loop"
  /\ enricher = "analyzeAllArticles"
  /\ aiPosition <= Len(aiArticles)
  /\ "missing" \in DOMAIN aiArticles[aiPosition]
  /\ aiPosition' = aiPosition + 1
  /\ UNCHANGED <<enricher, aiArticles, enhancedArticles, aiEnhanced, enrichPc>>
  /\ UNCHANGED <<oddsVars, sanVars, feedVars, sportVars, scanVars, repeatVars,
                 assembleVars, serviceVars>>

\* The catch clause of analyzeAllArticles, should analyzeSportsData reject:
\* the article is pushed as it is.
ArticleKept ==
  /\ enrichPc = "loop"
  /\ enricher = "analyzeAllArticles"
  /\ aiPosition <= Len(aiArticles)
  /\ "missing" \notin DOMAIN aiArticles[aiPosition]
  /\ enhancedArticles' = Append(enhancedArticles, aiArticles[aiPosition])
  /\ aiPosition' = aiPosition + 1
  /\ UNCHANGED <<enricher, aiArticles, aiEnhanced, enrichPc>>
  /\ UNCHANGED <<oddsVars, sanVars, feedVars, sportVars, scanVars, repeatVars,
                 assembleVars, serviceVars>>

\* createRealAIAnalysis throws: the catch clause of processSportsDataWithAI
\* ends the run, and no file is written.
AnalysisThrows ==
  /\ enrichPc = "loop"
  /\ enricher = "processSportsDataWithAI"
  /\ aiPosition <= Len(aiArticles)
  /\ enrichPc' = "failed"
  /\ UNCHANGED <<enricher, aiArticles, aiPosition, enhancedArticles, aiEnhanced>>
  /\ UNCHANGED <<oddsVars, sanVars, feedVars, sportVars, scanVars, repeatVars,
                 assembleVars, serviceVars>>

\* After the loop: fs.writeFileSync('ai_enhanced_sports_data.json', ...), or
\* return enhancedArticles.
FinishEnrich ==
  /\ enrichPc = "loop"
  /\ aiPosition > Len(aiArticles)
  /\ aiEnhanced' =
       <<IF enricher = "processSportsDataWithAI"
           THEN aiEnhancedData([metadata |-> [totalArticles |-> Len(aiArticles)],
                                articles |-> aiArticles], enhancedArticles)
           ELSE [articles |-> enhancedArticles]>>
  /\ enrichPc' = "done"
  /\ UNCHANGED <<enricher, aiArticles, aiPosition, enhancedArticles>>
  /\ UNCHANGED <<oddsVars, sanVars, feedVars, sportVars, scanVars, repeatVars,
                 assembleVars, serviceVars>>

NextEnrich ==
  \/ AnalyzeArticle
  \/ AnalysisFallsBack
  \/ SkipMissing
  \/ ArticleKept
  \/ AnalysisThrows
  \/ FinishEnrich

SpecEnrich == InitEnrich /\ [][NextEnrich]_vars

\* The time stamps that a file written before now may hold: none, or a time
\* before now.
StoredBefore(t) == {<<>>} \cup {<<s>> : s \in 1..(t - 1)}

\* The two files before a call of getRSSFeed at time now: the AI file with
\* either rss file, the rss file alone, or neither.
InitAssemble ==
  /\ \E t \in 2..MaxTime :
       /\ now = t
       /\ \/ /\ \E n \in 0..Len(AiFileArticles), s \in StoredBefore(t) :
                  aiFile = <<[articles |-> SubSeq(AiFileArticles, 1, n),
                              lastAIUpdate |-> s]>>
             /\ \E s \in {<<>>, <<1>>} :
                  rssFile = IF s = <<>> THEN <<>>
                            ELSE <<[articlesWithOdds |-> <<>>, lastUpdated |-> s]>>
          \/ /\ aiFile = <<>>
             /\ \E ids \in SeqsUpTo(FileArticleIds, MaxFileArticles),
                   s \in StoredBefore(t) :
                  rssFile = <<[articlesWithOdds |->
                                 [i \in 1..Len(ids) |-> FileArticleOf(ids[i])],
                               lastUpdated |-> s]>>
          \/ /\ aiFile = <<>>
             /\ rssFile = <<>>
  /\ returned = [raised |-> FALSE, feed |-> <<>>]
  /\ assemblePc = "call"
  /\ OddsIdle
  /\ SanIdle
  /\ FeedIdle
  /\ SportIdle
  /\ ScanIdle
  /\ RepeatIdle
  /\ EnrichIdle
  /\ ServiceIdle

\* await rssFeedAgent.getRSSFeed()
GetRSSFeed ==
  /\ assemblePc = "call"
  /\ returned' = getRSSFeed(aiFile, rssFile, now)
  /\ assemblePc' = "done"
  /\ UNCHANGED <<aiFile, rssFile, now>>
  /\ UNCHANGED <<oddsVars, sanVars, feedVars, sportVars, scanVars, repeatVars,
                 enrichVars, serviceVars>>

NextAssemble == GetRSSFeed

SpecAssemble == InitAssemble /\ [][NextAssemble]_vars

----------------------------------------------------------------------------
(* The sports routes of the server and the sports API agent *)

MaxRequests == 2

baseUrl == "https://api.the-odds-api.com/v4/sports"

\* req.params.sportKey: absent, or given.
SportKeyParams == {<<>>, <<"americanfootball_nfl">>}

\* What the sports API answers with: the list of sports, and the games of a
\* sport with their odds.
ApiSports == {<<>>, <<[key |-> "basketball_nba", title |-> "NBA"]>>}
ApiOdds ==
  {<<>>,
   <<[id |-> "g1", home_team |-> "Lakers", away_team |-> "Celtics",
      commence_time |-> "2025-01-01T00:00:00Z", status |-> "upcoming",
      bookmakers |-> <<>>]>>}

\* const sportKey = req.params.sportKey || 'basketball_nba'
sportKeyOf(params) == IF params = <<>> THEN "basketball_nba" ELSE params[1]

\* The URL of the agent's axios.get.
sportsUrl == <<baseUrl>>
oddsUrl(sportKey) == <<baseUrl, sportKey, "odds">>

\* response.data.map(game => ({...}))
gamesOf(sportKey, data) ==
  [i \in 1..Len(data) |->
     [id |-> data[i].id, sport |-> sportKey, homeTeam |-> data[i].home_team,
      awayTeam |-> data[i].away_team, startTime |-> data[i].commence_time,
      status |-> data[i].status]]

\* What the route answers with once the agent's call resolved with data:
\* res.json(...), status 200.
routeAnswer(call, data) ==
  [status |-> 200,
   body |-> IF call.route = "/api/games" THEN gamesOf(call.sportKey, data)
            ELSE data]

\* What the route's catch answers with: the agent logs and rethrows, the
\* route sends status 500 with its own message.
routeError(call) ==
  [status |-> 500,
   body |-> [error |-> CASE call.route = "/api/sports" -> "Failed to fetch sports"
                         [] call.route = "/api/games" -> "Failed to fetch games"
                         [] call.route = "/api/odds" -> "Failed to fetch odds"]]

InitApi ==
  /\ apiCalls = <<>>
  /\ apiResponses = <<>>
  /\ BesidesApiIdle

\* A request arrives and its handler runs up to the await of axios.get.
Arrives(route, sportKey, url) ==
  /\ Len(apiCalls) < MaxRequests
  /\ apiCalls' = Append(apiCalls, [route |-> route, sportKey |-> sportKey,
                                   url |-> url, axios |-> "pending"])
  /\ apiResponses' = Append(apiResponses, <<>>)
  /\ UNCHANGED besidesApiVars

\* app.get('/api/sports')
GetSports == Arrives("/api/sports", "", sportsUrl)

\* app.get('/api/games/:sportKey?')
GetGames ==
  \E params \in SportKeyParams :
    Arrives("/api/games", sportKeyOf(params), oddsUrl(sportKeyOf(params)))

\* app.get('/api/odds/:sportKey?')
GetOdds ==
  \E params \in SportKeyParams :
    Arrives("/api/odds", sportKeyOf(params), oddsUrl(sportKeyOf(params)))

\* The sports API answers a pending call: the agent returns and the route
\* sends the answer.
AxiosResolves ==
  \E i \in 1..Len(apiCalls) :
    /\ apiCalls[i].axios = "pending"
    /\ \E data \in (IF apiCalls[i].route = "/api/sports" THEN ApiSports ELSE ApiOdds) :
         apiResponses' =
           [apiResponses EXCEPT ![i] = Append(@, routeAnswer(apiCalls[i], data))]
    /\ apiCalls' = [apiCalls EXCEPT ![i].axios = "resolved"]
    /\ UNCHANGED besidesApiVars

\* The sports API is unavailable or the call fails: axios.get rejects, the
\* agent's catch rethrows, the route's catch answers.
AxiosRejects ==
  \E i \in 1..Len(apiCalls) :
    /\ apiCalls[i].axios = "pending"
    /\ apiResponses' =
         [apiResponses EXCEPT ![i] = Append(@, routeError(apiCalls[i]))]
    /\ apiCalls' = [apiCalls EXCEPT ![i].axios = "rejected"]
    /\ UNCHANGED besidesApiVars

NextApi ==
  \/ GetSports
  \/ GetGames
  \/ GetOdds
  \/ AxiosResolves
  \/ AxiosRejects

SpecApi == InitApi /\ [][NextApi]_vars

----------------------------------------------------------------------------
(* RSSFeedAgent.getGamesFromRSS, parseGameFromItem, extractTeams, extractOdds *)

\* The array teamPatterns of extractTeams, in its order, repeated keywords
\* included.
teamKeywords ==
  <<
    <<"l","a","k","e","r","s">>,
    <<"c","e","l","t","i","c","s">>,
    <<"w","a","r","r","i","o","r","s">>,
    <<"h","e","a","t">>,
    <<"b","u","l","l","s">>,
    <<"k","n","i","c","k","s">>,
    <<"s","u","n","s">>,
    <<"m","a","v","e","r","i","c","k","s">>,
    <<"b","u","c","k","s">>,
    <<"7","6","e","r","s">>,
    <<"n","e","t","s">>,
    <<"c","l","i","p","p","e","r","s">>,
    <<"n","u","g","g","e","t","s">>,
    <<"j","a","z","z">>,
    <<"t","r","a","i","l"," ","b","l","a","z","e","r","s">>,
    <<"t","h","u","n","d","e","r">>,
    <<"p","e","l","i","c","a","n","s">>,
    <<"k","i","n","g","s">>,
    <<"t","i","m","b","e","r","w","o","l","v","e","s">>,
    <<"r","o","c","k","e","t","s">>,
    <<"s","p","u","r","s">>,
    <<"g","r","i","z","z","l","i","e","s">>,
    <<"m","a","g","i","c">>,
    <<"h","a","w","k","s">>,
    <<"h","o","r","n","e","t","s">>,
    <<"p","i","s","t","o","n","s">>,
    <<"p","a","c","e","r","s">>,
    <<"c","a","v","a","l","i","e","r","s">>,
    <<"r","a","p","t","o","r","s">>,
    <<"w","i","z","a","r","d","s">>,
    <<"k","n","i","c","k","s">>,
    <<"h","e","a","t">>,
    <<"m","a","g","i","c">>,
    <<"h","a","w","k","s">>,
    <<"h","o","r","n","e","t","s">>,
    <<"p","i","s","t","o","n","s">>,
    <<"c","h","i","e","f","s">>,
    <<"b","i","l","l","s">>,
    <<"4","9","e","r","s">>,
    <<"c","o","w","b","o","y","s">>,
    <<"p","a","c","k","e","r","s">>,
    <<"l","i","o","n","s">>,
    <<"p","a","t","r","i","o","t","s">>,
    <<"j","e","t","s">>,
    <<"d","o","l","p","h","i","n","s">>,
    <<"b","i","l","l","s">>,
    <<"s","t","e","e","l","e","r","s">>,
    <<"b","r","o","w","n","s">>,
    <<"b","e","n","g","a","l","s">>,
    <<"r","a","v","e","n","s">>,
    <<"t","i","t","a","n","s">>,
    <<"j","a","g","u","a","r","s">>,
    <<"c","o","l","t","s">>,
    <<"t","e","x","a","n","s">>,
    <<"b","r","o","n","c","o","s">>,
    <<"r","a","i","d","e","r","s">>,
    <<"c","h","a","r","g","e","r","s">>,
    <<"c","h","i","e","f","s">>,
    <<"e","a","g","l","e","s">>,
    <<"g","i","a","n","t","s">>,
    <<"c","o","m","m","a","n","d","e","r","s">>,
    <<"c","a","r","d","i","n","a","l","s">>,
    <<"r","a","m","s">>,
    <<"s","e","a","h","a","w","k","s">>,
    <<"f","a","l","c","o","n","s">>,
    <<"p","a","n","t","h","e","r","s">>,
    <<"s","a","i","n","t","s">>,
    <<"b","u","c","c","a","n","e","e","r","s">>,
    <<"v","i","k","i","n","g","s">>,
    <<"b","e","a","r","s">>,
    <<"l","i","o","n","s">>,
    <<"p","a","c","k","e","r","s">>,
    <<"y","a","n","k","e","e","s">>,
    <<"r","e","d"," ","s","o","x">>,
    <<"d","o","d","g","e","r","s">>,
    <<"g","i","a","n","t","s">>,
    <<"c","u","b","s">>,
    <<"c","a","r","d","i","n","a","l","s">>,
    <<"m","e","t","s">>,
    <<"p","h","i","l","l","i","e","s">>,
    <<"b","r","a","v","e","s">>,
    <<"m","a","r","l","i","n","s">>,
    <<"n","a","t","i","o","n","a","l","s">>,
    <<"o","r","i","o","l","e","s">>,
    <<"b","l","u","e"," ","j","a","y","s">>,
    <<"r","a","y","s">>,
    <<"w","h","i","t","e"," ","s","o","x">>,
    <<"i","n","d","i","a","n","s">>,
    <<"t","i","g","e","r","s">>,
    <<"r","o","y","a","l","s">>,
    <<"t","w","i","n","s">>,
    <<"a","s","t","r","o","s">>,
    <<"r","a","n","g","e","r","s">>,
    <<"a","t","h","l","e","t","i","c","s">>,
    <<"m","a","r","i","n","e","r","s">>,
    <<"a","n","g","e","l","s">>,
    <<"r","o","c","k","i","e","s">>,
    <<"d","i","a","m","o","n","d","b","a","c","k","s">>,
    <<"p","a","d","r","e","s">>,
    <<"b","r","e","w","e","r","s">>,
    <<"r","e","d","s">>,
    <<"p","i","r","a","t","e","s">>
  >>

\* The positions of teamKeywords whose keyword occurs in text:
\* text.includes(team).
occurringKeywords(text) ==
  {k \in 1..Len(teamKeywords) : includes(text, teamKeywords[k])}

\* The positions at which the loop pushes to foundTeams: the keyword occurs
\* and no earlier position has pushed it (!foundTeams.includes(team)).
foundKeywords(text) ==
  LET m == occurringKeywords(text)
  IN  {k \in m : \A j \in m : j < k => teamKeywords[j] # teamKeywords[k]}

\* foundTeams, in the order of the pushes.
foundTeams(text) ==
  LET ks == foundKeywords(text)
  IN  [i \in 1..Cardinality(ks) |->
         teamKeywords[CHOOSE k \in ks : Cardinality({j \in ks : j < k}) = i - 1]]

\* extractTeams returning the first two keywords that it finds however few
\* it finds.
extractTeamsAny(title, description) ==
  LET found == foundTeams(title \o <<" ">> \o description)
  IN  <<SubSeq(found \o <<<<>>, <<>>>>, 1, 2)>>

\* extractTeams(title, description): <<the two teams>>, or <<>> for null.
extractTeams(title, description) ==
  LET found == foundTeams(title \o <<" ">> \o description)
  IN  IF Len(found) >= 2 THEN <<SubSeq(found, 1, 2)>> ELSE <<>>

\* The position of the first match of pattern p of the odds patterns in
\* text, or 0: text.match(pattern) without flag g.
firstMatch(p, text) ==
  LET at == {j \in 1..Len(text) : oddsPatternEnd(p, text, j) > 0}
  IN  IF at = {} THEN 0 ELSE CHOOSE k \in at : \A l \in at : k <= l

\* spreadMatch[1] of extractOdds: the signed number of the first match.
oddsSpread(text) ==
  LET j == firstMatch(1, text)
  IN  IF j = 0 THEN <<>> ELSE <<SubSeq(text, j, numberEnd(text, j + 1) - 1)>>

\* The index after the word (?:o\/u|over\/under|total) at position i of s.
totalWordEnd(s, i) ==
  IF wordAt(s, i, <<"o","/","u">>) THEN i + 3
  ELSE IF wordAt(s, i, <<"o","v","e","r","/","u","n","d","e","r">>) THEN i + 10
  ELSE i + 5

\* totalMatch[1] of extractOdds: the number of the first match.
oddsTotal(text) ==
  LET j == firstMatch(2, text)
  IN  IF j = 0 THEN <<>>
      ELSE <<SubSeq(text, SpacesEnd(text, totalWordEnd(text, j)),
                    oddsPatternEnd(2, text, j) - 1)>>

\* moneylineMatch.slice(0, 2).join(' / ') when there are two matches.
oddsMoneyline(text) ==
  LET ms == matches(3, text, 1)
  IN  IF Len(ms) >= 2 THEN <<ms[1] \o <<" ","/"," ">> \o ms[2]>> ELSE <<>>

\* Object.keys(odds).length > 0 ? odds : undefined
oddsOrUndefined(odds) ==
  IF odds.spread = <<>> /\ odds.total = <<>> /\ odds.moneyline = <<>>
    THEN <<>> ELSE <<odds>>

\* extractOdds(title, description): <<odds>> with the properties found (each
\* <<>> when absent), or <<>> for undefined when none is found.
extractOdds(title, description) ==
  CHOOSE result \in
    {oddsOrUndefined(odds) :
       odds \in {[spread |-> oddsSpread(text), total |-> oddsTotal(text),
                  moneyline |-> oddsMoneyline(text)] :
                   text \in {title \o <<" ">> \o description}}} : TRUE

\* The game, or null, that parseGameFromItem makes of the lower-cased title
\* and description.
gameOf(title, description, id) ==
  LET sportKey == extractSport(title, description)
      teams == extractTeams(title, description)
  IN  IF sportKey = <<>> THEN <<>>
      ELSE IF teams = <<>> \/ Len(teams[1]) < 2 THEN <<>>
      ELSE <<[id |-> id, sport |-> sportKey[1], homeTeam |-> teams[1][2],
              awayTeam |-> teams[1][1], status |-> "upcoming",
              odds |-> extractOdds(title, description),
              source |-> "oddsshark_rss"]>>

\* parseGameFromItem(item) with the id that it generates: <<game>>, or <<>>
\* for null.  toLowerCase on a missing title or description throws, and the
\* catch returns null.
parseGameFromItem(item, id) ==
  IF item.title = Undefined \/ item.description = Undefined THEN <<>>
  ELSE CHOOSE result \in
         {gameOf(title, description, id) :
            title \in {toLowerCase(item.title)},
            description \in {toLowerCase(item.description)}} : TRUE

\* The loop of getGamesFromRSS over feedData.items, ids[i] the id generated
\* for item i.
RECURSIVE parsedGames(_, _)
parsedGames(items, ids) ==
  IF items = <<>> THEN <<>>
  ELSE parseGameFromItem(Head(items), Head(ids)) \o parsedGames(Tail(items), Tail(ids))

\* getGamesFromRSS(): the catch rethrows what getRSSFeed throws.
getGamesFromRSS(feed, ids) ==
  IF feed.raised THEN [raised |-> TRUE, games |-> <<>>]
  ELSE [raised |-> FALSE, games |-> parsedGames(feed.items, ids)]

----------------------------------------------------------------------------
(* Inputs of getGamesFromRSS: the items of the feed *)

MaxGameItems == 2

\* Math.random().toString(36).substr(2, 9)
IdSuffixes == {"k3x9", "p07q"}

GameItems ==
  <<[title |-> <<"L","a","k","e","r","s"," ","v","s"," ","C","e","l","t","i","c","s">>,
     description |-> <<"N","B","A"," ","t","o","n","i","g","h","t","."," ","L","a","k","e","r","s"," ","-","3",".","5"," ","p","t","s",","," ","O","/","U"," ","2","2","0",".","5">>],
    [title |-> <<"C","e","l","t","i","c","s"," ","h","o","s","t"," ","L","a","k","e","r","s">>,
     description |-> <<"B","a","s","k","e","t","b","a","l","l">>],
    [title |-> <<"V","i","k","i","n","g","s"," ","p","r","e","v","i","e","w">>,
     description |-> <<"N","F","L"," ","-","1","1","0"," ","+","1","5","0">>],
    [title |-> <<"C","h","e","s","s"," ","O","p","e","n">>,
     description |-> <<"B","u","l","l","s"," ","a","n","d"," ","B","e","a","r","s">>],
    [title |-> <<"N","B","A"," ","D","r","a","f","t">>,
     description |-> <<"L","a","k","e","r","s"," ","p","i","c","k"," ","f","i","r","s","t">>],
    [title |-> <<"K","n","i","c","k","s",","," ","H","e","a","t"," ","a","n","d"," ","M","a","g","i","c">>,
     description |-> <<"n","b","a">>],
    [title |-> Undefined,
     description |-> <<"N","F","L",":"," ","C","h","i","e","f","s"," ","v","s"," ","B","i","l","l","s">>],
    [title |-> <<"Y","a","n","k","e","e","s"," ","v","s"," ","R","e","d">>,
     description |-> <<"S","o","x"," ","M","L","B">>]>>

----------------------------------------------------------------------------
(* The call of getGamesFromRSS *)

InitGames ==
  /\ \/ gamesFeed = [raised |-> TRUE, items |-> <<>>]
     \/ \E ids \in SeqsUpTo(1..Len(GameItems), MaxGameItems) :
          gamesFeed = [raised |-> FALSE,
                       items |-> [i \in 1..Len(ids) |-> GameItems[ids[i]]]]
  /\ games = [raised |-> FALSE, games |-> <<>>]
  /\ gamesPc = "call"
  /\ BesidesGamesIdle

\* await rssFeedAgent.getGamesFromRSS(), getRSSFeed having returned.
GetGamesFromRSS ==
  /\ gamesPc = "call"
  /\ ~gamesFeed.raised
  /\ \E ids \in [1..Len(gamesFeed.items) -> IdSuffixes] :
       games' = getGamesFromRSS(gamesFeed, ids)
  /\ gamesPc' = "done"
  /\ UNCHANGED <<gamesFeed, besidesGamesVars>>

\* The same, getRSSFeed having thrown.
GetGamesFromRSSFails ==
  /\ gamesPc = "call"
  /\ gamesFeed.raised
  /\ games' = getGamesFromRSS(gamesFeed, <<>>)
  /\ gamesPc' = "done"
  /\ UNCHANGED <<gamesFeed, besidesGamesVars>>

NextGames ==
  \/ GetGamesFromRSS
  \/ GetGamesFromRSSFails

SpecGames == InitGames /\ [][NextGames]_vars

----------------------------------------------------------------------------
(* The scraper, the AI analysis and the feed requests over the files *)

\* The latest time of day of the runs and requests.
MaxClock == 6

\* The kth article that a scraper run may find: the kth item of FeedItems
\* with a description where k is 1, and what page.evaluate gives of the kth
\* page.
ScrapedArticle(k) ==
  [rssItem |-> [title |-> FeedItems[k].title, link |-> FeedItems[k].link,
                description |-> IF k = 1 THEN StrPreview ELSE <<>>,
                pubDate |-> FeedItems[k].pubDate,
                category |-> FeedItems[k].category],
   oddsData |-> extracted(Pages[k], FeedItems[k].link)]

InitPipeline ==
  /\ aiEnhancedJson = <<>>
  /\ rssWithOddsJson = <<>>
  /\ comprehensiveJson = <<>>
  /\ clock = 1
  /\ served = [raised |-> FALSE, feed |-> <<>>]
  /\ servedAt = 0
  /\ BesidesPipelineIdle

\* A run of puppeteer_rss.js that got the feed:
\* fs.writeFileSync('rss_with_odds.json', ...), with the lastUpdated that
\* jsonData holds.
ScraperRun ==
  /\ clock < MaxClock
  /\ \E ids \in SeqsUpTo(1..Len(FeedItems), MaxFileArticles) :
       rssWithOddsJson' =
         <<[articlesWithOdds |-> [i \in 1..Len(ids) |-> ScrapedArticle(ids[i])],
            lastUpdated |-> <<clock>>]>>
  /\ clock' = clock + 1
  /\ UNCHANGED <<aiEnhancedJson, comprehensiveJson, served, servedAt>>
  /\ UNCHANGED besidesPipelineVars

\* A run of puppeteer_rss.js whose page held no feed: nothing is written.
ScraperRunBlocked ==
  /\ clock < MaxClock
  /\ clock' = clock + 1
  /\ UNCHANGED <<aiEnhancedJson, rssWithOddsJson, comprehensiveJson, served,
                 servedAt>>
  /\ UNCHANGED besidesPipelineVars

\* saveComprehensiveData(enhancedData) on the data of rss_with_odds.json.
SaveComprehensive ==
  /\ clock < MaxClock
  /\ rssWithOddsJson # <<>>
  /\ comprehensiveJson' = <<saveComprehensiveData(rssWithOddsJson[1])>>
  /\ clock' = clock + 1
  /\ UNCHANGED <<aiEnhancedJson, rssWithOddsJson, served, servedAt>>
  /\ UNCHANGED besidesPipelineVars

\* A run of processSportsDataWithAI in which every analysis returns:
\* fs.writeFileSync('ai_enhanced_sports_data.json', ...) with lastAIUpdate.
AiRun ==
  /\ clock < MaxClock
  /\ comprehensiveJson # <<>>
  /\ \E a \in [1..Len(comprehensiveJson[1].articles) -> 1..Len(AiAnalyses)] :
       aiEnhancedJson' =
         <<[f \in {"articles", "lastAIUpdate"} |->
              IF f = "lastAIUpdate" THEN <<clock>>
              ELSE [i \in 1..Len(comprehensiveJson[1].articles) |->
                      enhancedArticle(comprehensiveJson[1].articles[i],
                                      AiAnalyses[a[i]])]]>>
  /\ clock' = clock + 1
  /\ UNCHANGED <<rssWithOddsJson, comprehensiveJson, served, servedAt>>
  /\ UNCHANGED besidesPipelineVars

\* A run of processSportsDataWithAI that returns before the loop, without
\* comprehensive_sports_data.json or without GEMINI_API_KEY, or whose
\* catch clause ends it: nothing is written.
AiRunWritesNothing ==
  /\ clock < MaxClock
  /\ clock' = clock + 1
  /\ UNCHANGED <<aiEnhancedJson, rssWithOddsJson, comprehensiveJson, served,
                 servedAt>>
  /\ UNCHANGED besidesPipelineVars

\* A request of the feed: await rssFeedAgent.getRSSFeed()
FeedRequest ==
  /\ clock < MaxClock
  /\ served' = getRSSFeed(aiEnhancedJson, rssWithOddsJson, clock)
  /\ servedAt' = clock
  /\ clock' = clock + 1
  /\ UNCHANGED <<aiEnhancedJson, rssWithOddsJson, comprehensiveJson>>
  /\ UNCHANGED besidesPipelineVars

NextPipeline ==
  \/ ScraperRun
  \/ ScraperRunBlocked
  \/ SaveComprehensive
  \/ AiRun
  \/ AiRunWritesNothing
  \/ FeedRequest

SpecPipeline == InitPipeline /\ [][NextPipeline]_vars

----------------------------------------------------------------------------
(* getRSSWithPuppeteer: the scraper's run and the agent's *)

\* text.replace(/p/g, r) for a pattern p that is a plain string.
RECURSIVE replaceAll(_, _, _)
replaceAll(text, p, r) ==
  IF Len(text) < Len(p) THEN text
  ELSE IF SubSeq(text, 1, Len(p)) = p
    THEN r \o replaceAll(SubSeq(text, Len(p) + 1, Len(text)), p, r)
  ELSE <<Head(text)>> \o replaceAll(Tail(text), p, r)

\* The replacements of decodeHtmlEntities, in order: <<pattern, replacement>>.
htmlEntities ==
  <<<<<<"&","a","m","p",";","l","t",";">>, <<"<">>>>,
    <<<<"&","a","m","p",";","g","t",";">>, <<">">>>>,
    <<<<"&","a","m","p",";","a","m","p",";">>, <<"&">>>>,
    <<<<"&","a","m","p",";","q","u","o","t",";">>, <<"\"">>>>,
    <<<<"&","a","m","p",";","a","p","o","s",";">>, <<"'">>>>,
    <<<<"&","a","m","p",";","n","b","s","p",";">>, <<" ">>>>,
    <<<<"&","l","t",";">>, <<"<">>>>,
    <<<<"&","g","t",";">>, <<">">>>>,
    <<<<"&","a","m","p",";">>, <<"&">>>>,
    <<<<"&","q","u","o","t",";">>, <<"\"">>>>,
    <<<<"&","#","3","9",";">>, <<"'">>>>,
    <<<<"&","n","b","s","p",";">>, <<" ">>>>>>

RECURSIVE decodedFrom(_, _)
decodedFrom(text, k) ==
  IF k > Len(htmlEntities) THEN text
  ELSE decodedFrom(replaceAll(text, htmlEntities[k][1], htmlEntities[k][2]), k + 1)

decodeHtmlEntities(text) == decodedFrom(text, 1)

\* The first position at or after i where p occurs in s, or 0.
indexFrom(s, p, i) ==
  LET at == {j \in i..(Len(s) - Len(p) + 1) : SubSeq(s, j, j + Len(p) - 1) = p}
  IN  IF at = {} THEN 0 ELSE CHOOSE j \in at : \A k \in at : j <= k

\* Group 1 of /<pre[^>]*>(.*?)<\/pre>/s at the start position i, or <<>>
\* when the pattern does not match there.
preGroupAt(html, i) ==
  IF i + 3 > Len(html) \/ SubSeq(html, i, i + 3) # <<"<","p","r","e">>
    THEN <<>>
  ELSE LET gt == indexFrom(html, <<">">>, i + 4)
           end == IF gt = 0 THEN 0
                  ELSE indexFrom(html, <<"<","/","p","r","e",">">>, gt + 1)
       IN  IF end = 0 THEN <<>> ELSE <<SubSeq(html, gt + 1, end - 1)>>

\* htmlContent.match(/<pre[^>]*>(.*?)<\/pre>/s): group 1 of the leftmost
\* match, or <<>> for null.
preMatch(html) ==
  LET at == {i \in 1..Len(html) : preGroupAt(html, i) # <<>>}
  IN  IF at = {} THEN <<>>
      ELSE preGroupAt(html, CHOOSE i \in at : \A k \in at : i <= k)

extractXMLFromHTML(htmlContent) ==
  IF /\ includes(htmlContent, <<"<","h","t","m","l",">">>)
     /\ includes(htmlContent, <<"<","p","r","e",">">>)
     /\ preMatch(htmlContent) # <<>>
     /\ preMatch(htmlContent)[1] # <<>>
    THEN decodeHtmlEntities(preMatch(htmlContent)[1])
  ELSE IF \/ includes(htmlContent, <<"&","a","m","p",";","l","t",";">>)
          \/ includes(htmlContent, <<"&","a","m","p",";","g","t",";">>)
    THEN decodeHtmlEntities(htmlContent)
  ELSE htmlContent

\* decodedXML.includes('<rss') || decodedXML.includes('<feed') ||
\* decodedXML.includes('<item>')
gotRss(decodedXML) ==
  \/ includes(decodedXML, <<"<","r","s","s">>)
  \/ includes(decodedXML, <<"<","f","e","e","d">>)
  \/ includes(decodedXML, <<"<","i","t","e","m",">">>)

\* rawContent.includes('AWS WAF') || rawContent.includes('challenge')
mentionsWaf(rawContent) ==
  \/ includes(rawContent, <<"A","W","S"," ","W","A","F">>)
  \/ includes(rawContent, <<"c","h","a","l","l","e","n","g","e">>)

\* The branch of the script, were the alternative approach tried on whatever
\* is not a feed.
branchAfterFetchRetrying(rawContent) ==
  IF gotRss(extractXMLFromHTML(rawContent)) THEN "articles" ELSE "alternative"

\* The branch of the script after the first fetch.
branchAfterFetch(rawContent) ==
  IF gotRss(extractXMLFromHTML(rawContent)) THEN "articles"
  ELSE IF mentionsWaf(rawContent) THEN "alternative"
  ELSE "unknown"

\* What page.content() may give: a feed, a feed within pre tags and encoded,
\* a doubly encoded feed, an item alone, a WAF page, a challenge page, a feed
\* that mentions a challenge, an encoded feed on a WAF page, and a page that
\* is none of these.
PageContents ==
  {<<"<","r","s","s",">">>,
   <<"<","h","t","m","l",">","<","p","r","e",">","&","l","t",";","f","e","e",
     "d","&","g","t",";","<","/","p","r","e",">">>,
   <<"&","a","m","p",";","l","t",";","r","s","s">>,
   <<"<","i","t","e","m",">">>,
   <<"A","W","S"," ","W","A","F">>,
   <<"<","p","r","e",">","c","h","a","l","l","e","n","g","e">>,
   <<"<","r","s","s",">","c","h","a","l","l","e","n","g","e">>,
   <<"A","W","S"," ","W","A","F","&","a","m","p",";","l","t",";","i","t","e",
     "m","&","a","m","p",";","g","t",";">>,
   <<"&","l","t",";","r","s","s">>,
   <<"4","0","4">>}

InitScrape ==
  /\ scrapeRunner \in {"script", "agent"}
  /\ scrapePc = "launch"
  /\ browser = "none"
  /\ closeCalls = 0
  /\ rawContents = <<>>
  /\ alternativeFetches = 0
  /\ completion = "none"
  /\ scrapeResult = "none"
  /\ BesidesScrapeIdle

\* await puppeteer.launch(...) resolves.
Launch ==
  /\ scrapePc = "launch"
  /\ browser' = "open"
  /\ scrapePc' = "fetch"
  /\ UNCHANGED <<scrapeRunner, closeCalls, rawContents, alternativeFetches,
                 completion, scrapeResult>>
  /\ UNCHANGED besidesScrapeVars

\* await puppeteer.launch(...) rejects, before the try statement: the run
\* rejects.
LaunchRejects ==
  /\ scrapePc = "launch"
  /\ scrapeResult' = "rejected"
  /\ scrapePc' = "done"
  /\ UNCHANGED <<scrapeRunner, browser, closeCalls, rawContents,
                 alternativeFetches, completion>>
  /\ UNCHANGED besidesScrapeVars

\* newPage, goto and page.content() of the first fetch resolve.  The agent
\* returns the content; the script writes its files and branches.
FirstFetch ==
  /\ scrapePc = "fetch"
  /\ \E rawContent \in PageContents :
       /\ rawContents' = Append(rawContents, rawContent)
       /\ IF scrapeRunner = "agent" \/ branchAfterFetch(rawContent) = "unknown"
            THEN completion' = "value" /\ scrapePc' = "finally"
            ELSE completion' = completion
                 /\ scrapePc' = branchAfterFetch(rawContent)
  /\ UNCHANGED <<scrapeRunner, browser, closeCalls, alternativeFetches,
                 scrapeResult>>
  /\ UNCHANGED besidesScrapeVars

\* A statement of the try block throws before the branch: the catch clause
\* returns null.
FirstFetchThrows ==
  /\ scrapePc = "fetch"
  /\ completion' = "null"
  /\ scrapePc' = "finally"
  /\ UNCHANGED <<scrapeRunner, browser, closeCalls, rawContents,
                 alternativeFetches, scrapeResult>>
  /\ UNCHANGED besidesScrapeVars

\* The article loop and the writing of rss_with_odds.json: the result object
\* is returned, or null from the catch clause when a statement throws.
Articles ==
  /\ scrapePc = "articles"
  /\ completion' \in {"value", "null"}
  /\ scrapePc' = "finally"
  /\ UNCHANGED <<scrapeRunner, browser, closeCalls, rawContents,
                 alternativeFetches, scrapeResult>>
  /\ UNCHANGED besidesScrapeVars

\* The alternative approach: the main page, then the feed again.  The result
\* object is returned when the second content is a feed, null when it is
\* not, and null from the catch clause when a statement throws.
AlternativeFetch ==
  /\ scrapePc = "alternative"
  /\ alternativeFetches' = alternativeFetches + 1
  /\ \/ \E rawContent2 \in PageContents :
          /\ rawContents' = Append(rawContents, rawContent2)
          /\ completion' = IF gotRss(extractXMLFromHTML(rawContent2))
                             THEN "value" ELSE "null"
     \/ /\ completion' = "null"
        /\ UNCHANGED rawContents
  /\ scrapePc' = "finally"
  /\ UNCHANGED <<scrapeRunner, browser, closeCalls, scrapeResult>>
  /\ UNCHANGED besidesScrapeVars

\* finally { await browser.close() } resolves: the caller gets what the try
\* statement completed with.
Close ==
  /\ scrapePc = "finally"
  /\ closeCalls' = closeCalls + 1
  /\ browser' = "closed"
  /\ scrapeResult' = completion
  /\ scrapePc' = "done"
  /\ UNCHANGED <<scrapeRunner, rawContents, alternativeFetches, completion>>
  /\ UNCHANGED besidesScrapeVars

\* finally { await browser.close() } rejects: the rejection replaces what
\* the try statement completed with.
CloseRejects ==
  /\ scrapePc = "finally"
  /\ closeCalls' = closeCalls + 1
  /\ scrapeResult' = "rejected"
  /\ scrapePc' = "done"
  /\ UNCHANGED <<scrapeRunner, browser, rawContents, alternativeFetches,
                 completion>>
  /\ UNCHANGED besidesScrapeVars

NextScrape ==
  \/ Launch
  \/ LaunchRejects
  \/ FirstFetch
  \/ FirstFetchThrows
  \/ Articles
  \/ AlternativeFetch
  \/ Close
  \/ CloseRejects

SpecScrape == InitScrape /\ [][NextScrape]_vars

\* Every await of a run settles: puppeteer bounds its navigations by the
\* timeout of 30000 ms and the waits are timers.
FairSpecScrape == SpecScrape /\ WF_vars(NextScrape)

----------------------------------------------------------------------------
(* GET /api/rss/update and GET /api/ai/analyze *)

\* The most requests to the two routes.
MaxJobs == 3

JobRoutes == {"/api/rss/update", "/api/ai/analyze"}

\* The script that the route spawns with node.
scriptPath(route) ==
  IF route = "/api/rss/update" THEN "../puppeteer_rss.js"
  ELSE "../ai_analysis_processor.js"

\* res.json({ success: true, message, note }) of the route.
startedAnswer(route) ==
  [status |-> 200,
   body |-> [success |-> TRUE,
             message |-> IF route = "/api/rss/update"
                           THEN "Puppeteer process started successfully"
                           ELSE "AI analysis process started successfully"]]

\* The listener of 'close', were it to answer when the code is not 0.
onCloseAnswering(sent, code) ==
  IF code = 0 THEN sent
  ELSE Append(sent, [status |-> 500, body |-> [success |-> FALSE]])

\* child.on('close', (code) => ...): the responses sent to the request after
\* the listener ran, sent being those before it.  The listener logs.
onClose(sent, code) == sent

\* child.on('error', ...) and the catch clause of the route: they log, and
\* send nothing.
onError(sent) == sent

InitJobs ==
  /\ jobRequests = <<>>
  /\ jobResponses = <<>>
  /\ jobEvents = <<>>
  /\ children = <<>>
  /\ BesidesJobsIdle

\* A request arrives and the route runs: res.json first, then spawn, which
\* returns the child.
StartJob ==
  /\ Len(jobRequests) < MaxJobs
  /\ \E route \in JobRoutes :
       jobRequests' = Append(jobRequests, [route |-> route, script |-> scriptPath(route)])
       /\ jobResponses' = Append(jobResponses, <<startedAnswer(route)>>)
  /\ jobEvents' = Append(jobEvents, <<"response", "spawn">>)
  /\ children' = Append(children, "running")
  /\ UNCHANGED besidesJobsVars

\* A request arrives and the route runs: res.json first, then spawn, which
\* throws; the catch clause logs.
StartJobSpawnThrows ==
  /\ Len(jobRequests) < MaxJobs
  /\ \E route \in JobRoutes :
       jobRequests' = Append(jobRequests, [route |-> route, script |-> scriptPath(route)])
       /\ jobResponses' = Append(jobResponses, onError(<<startedAnswer(route)>>))
  /\ jobEvents' = Append(jobEvents, <<"response", "threw">>)
  /\ children' = Append(children, "none")
  /\ UNCHANGED besidesJobsVars

\* The child of request i emits 'error': it could not be spawned.
ChildErrors ==
  /\ \E i \in 1..Len(children) :
       /\ children[i] = "running"
       /\ children' = [children EXCEPT ![i] = "failed"]
       /\ jobResponses' = [jobResponses EXCEPT ![i] = onError(jobResponses[i])]
       /\ jobEvents' = [jobEvents EXCEPT ![i] = Append(jobEvents[i], "error")]
  /\ UNCHANGED jobRequests
  /\ UNCHANGED besidesJobsVars

\* The child of request i emits 'close' with its exit code.
ChildCloses ==
  /\ \E i \in 1..Len(children), code \in {0, 1} :
       /\ children[i] \in {"running", "failed"}
       /\ children' = [children EXCEPT ![i] = "exited"]
       /\ jobResponses' = [jobResponses EXCEPT ![i] = onClose(jobResponses[i], code)]
       /\ jobEvents' = [jobEvents EXCEPT ![i] =
                          Append(jobEvents[i], IF code = 0 THEN "close 0" ELSE "close 1")]
  /\ UNCHANGED jobRequests
  /\ UNCHANGED besidesJobsVars

NextJobs ==
  \/ StartJob
  \/ StartJobSpawnThrows
  \/ ChildErrors
  \/ ChildCloses

SpecJobs == InitJobs /\ [][NextJobs]_vars

----------------------------------------------------------------------------
(* DatabaseService: connect, initializeTables, transaction; bootstrap *)

\* The most calls of transaction and bootstrap, and the most statements of
\* a callback.
MaxDbCalls == 2
MaxCallbackQueries == 2

\* CREATE_GAMES_TABLE_SQL, CREATE_ODDS_SNAPSHOTS_TABLE_SQL and
\* CREATE_ALERTS_TABLE_SQL, in the order of initializeTables.
CreateTableStatements == <<"CREATE games", "CREATE odds_snapshots", "CREATE alerts">>

\* What a callback may ask of its client.
CallbackStatements == {"INSERT", "UPDATE"}

\* The statements with one more, which succeeded or failed.
issued(log, text, ok) == Append(log, [text |-> text, ok |-> ok])

\* initializeTables after a CREATE TABLE statement that failed: the catch
\* clause logs and rethrows; client.release() is not reached.
afterFailedCreate(out, held) == [checkedOut |-> out, released |-> held]

\* transaction skipping ROLLBACK.
afterCatchForgetful(log, ok) == log

\* The catch clause of transaction: await client.query('ROLLBACK').
afterCatch(log, ok) == issued(log, "ROLLBACK", ok)

InitDb ==
  /\ dbCall = "none"
  /\ dbPc = "done"
  /\ dbCalls = 0
  /\ checkedOut = 0
  /\ acquired = 0
  /\ released = 0
  /\ statements = <<>>
  /\ dbThrown = "none"
  /\ dbOutcome = "none"
  /\ bootstrapState = "none"
  /\ BesidesDbIdle

\* A call begins: dbService.transaction(callback), or bootstrap(), which
\* calls dbService.connect().
StartCall(method, state) ==
  /\ dbPc = "done"
  /\ dbCalls < MaxDbCalls
  /\ dbCall' = method
  /\ dbPc' = "connect"
  /\ dbCalls' = dbCalls + 1
  /\ acquired' = 0
  /\ released' = 0
  /\ statements' = <<>>
  /\ dbThrown' = "none"
  /\ dbOutcome' = "none"
  /\ bootstrapState' = state
  /\ UNCHANGED checkedOut
  /\ UNCHANGED besidesDbVars

StartTransaction == StartCall("transaction", "none")

StartBootstrap == StartCall("connect", "starting")

\* await this.pool.connect() resolves with a client.
PoolConnects ==
  /\ dbPc = "connect"
  /\ checkedOut' = checkedOut + 1
  /\ acquired' = acquired + 1
  /\ dbPc' = CASE dbCall = "transaction" -> "begin"
               [] dbCall = "connect" -> "release"
               [] dbCall = "initializeTables" -> "create"
  /\ UNCHANGED <<dbCall, dbCalls, released, statements, dbThrown, dbOutcome,
                 bootstrapState>>
  /\ UNCHANGED besidesDbVars

\* await this.pool.connect() rejects: transaction rejects, connect and
\* initializeTables log and rethrow, and bootstrap goes on without database.
PoolConnectRejects ==
  /\ dbPc = "connect"
  /\ dbThrown' = "pool.connect"
  /\ dbOutcome' = "threw"
  /\ dbPc' = "done"
  /\ bootstrapState' = IF dbCall = "transaction" THEN bootstrapState
                       ELSE "without database"
  /\ UNCHANGED <<dbCall, dbCalls, checkedOut, acquired, released, statements>>
  /\ UNCHANGED besidesDbVars

\* connect: client.release(), and the method returns; bootstrap goes on to
\* dbService.initializeTables().
ConnectReleases ==
  /\ dbPc = "release"
  /\ dbCall = "connect"
  /\ checkedOut' = checkedOut - 1
  /\ released' = released + 1
  /\ dbCall' = "initializeTables"
  /\ dbPc' = "connect"
  /\ UNCHANGED <<dbCalls, acquired, statements, dbThrown, dbOutcome,
                 bootstrapState>>
  /\ UNCHANGED besidesDbVars

\* initializeTables: the next CREATE TABLE statement.  After the third the
\* client is released and the method returns; a statement that fails takes
\* the method to its catch clause.
CreateTable ==
  /\ dbPc = "create"
  /\ \E ok \in BOOLEAN :
       LET text == CreateTableStatements[Len(statements) + 1]
           last == Len(statements) + 1 = Len(CreateTableStatements)
           left == afterFailedCreate(checkedOut, released)
       IN  /\ statements' = issued(statements, text, ok)
           /\ IF ~ok
                THEN /\ checkedOut' = left.checkedOut
                     /\ released' = left.released
                     /\ dbThrown' = text
                     /\ dbOutcome' = "threw"
                     /\ dbPc' = "done"
                     /\ bootstrapState' = "without database"
              ELSE IF last
                THEN /\ checkedOut' = checkedOut - 1
                     /\ released' = released + 1
                     /\ dbOutcome' = "returned"
                     /\ dbPc' = "done"
                     /\ bootstrapState' = "with database"
                     /\ UNCHANGED dbThrown
              ELSE UNCHANGED <<checkedOut, released, dbThrown, dbOutcome, dbPc,
                               bootstrapState>>
  /\ UNCHANGED <<dbCall, dbCalls, acquired>>
  /\ UNCHANGED besidesDbVars

\* transaction: await client.query('BEGIN')
Begin ==
  /\ dbPc = "begin"
  /\ \E ok \in BOOLEAN :
       /\ statements' = issued(statements, "BEGIN", ok)
       /\ dbThrown' = IF ok THEN dbThrown ELSE "BEGIN"
       /\ dbPc' = IF ok THEN "callback" ELSE "rollback"
  /\ UNCHANGED <<dbCall, dbCalls, checkedOut, acquired, released, dbOutcome,
                 bootstrapState>>
  /\ UNCHANGED besidesDbVars

\* transaction: await callback(client).  The callback's statements succeed
\* and it resolves, or it rejects after them.
Callback ==
  /\ dbPc = "callback"
  /\ \E texts \in SeqsUpTo(CallbackStatements, MaxCallbackQueries), ok \in BOOLEAN :
       /\ statements' =
            issued(statements \o [k \in 1..Len(texts) |->
                                    [text |-> texts[k], ok |-> TRUE]],
                   "callback", ok)
       /\ dbThrown' = IF ok THEN dbThrown ELSE "callback"
       /\ dbPc' = IF ok THEN "commit" ELSE "rollback"
  /\ UNCHANGED <<dbCall, dbCalls, checkedOut, acquired, released, dbOutcome,
                 bootstrapState>>
  /\ UNCHANGED besidesDbVars

\* transaction: await client.query('COMMIT'); return result
Commit ==
  /\ dbPc = "commit"
  /\ \E ok \in BOOLEAN :
       /\ statements' = issued(statements, "COMMIT", ok)
       /\ dbThrown' = IF ok THEN dbThrown ELSE "COMMIT"
       /\ dbPc' = IF ok THEN "release" ELSE "rollback"
  /\ UNCHANGED <<dbCall, dbCalls, checkedOut, acquired, released, dbOutcome,
                 bootstrapState>>
  /\ UNCHANGED besidesDbVars

\* transaction: catch (error) { await client.query('ROLLBACK'); throw error }
\* A ROLLBACK that fails throws its own error in place of the first.
Rollback ==
  /\ dbPc = "rollback"
  /\ \E ok \in BOOLEAN :
       /\ statements' = afterCatch(statements, ok)
       /\ dbThrown' = IF ok THEN dbThrown ELSE "ROLLBACK"
  /\ dbPc' = "release"
  /\ UNCHANGED <<dbCall, dbCalls, checkedOut, acquired, released, dbOutcome,
                 bootstrapState>>
  /\ UNCHANGED besidesDbVars

\* transaction: finally { client.release() }, and the method returns the
\* result or throws the error.
TransactionReleases ==
  /\ dbPc = "release"
  /\ dbCall = "transaction"
  /\ checkedOut' = checkedOut - 1
  /\ released' = released + 1
  /\ dbOutcome' = IF dbThrown = "none" THEN "returned" ELSE "threw"
  /\ dbPc' = "done"
  /\ UNCHANGED <<dbCall, dbCalls, acquired, statements, dbThrown, bootstrapState>>
  /\ UNCHANGED besidesDbVars

NextDb ==
  \/ StartTransaction
  \/ StartBootstrap
  \/ PoolConnects
  \/ PoolConnectRejects
  \/ ConnectReleases
  \/ CreateTable
  \/ Begin
  \/ Callback
  \/ Commit
  \/ Rollback
  \/ TransactionReleases

SpecDb == InitDb /\ [][NextDb]_vars

----------------------------------------------------------------------------
(* Properties of parseOddsData, over SpecOdds *)

OddsDone == oddsPc = "done"

\* The rows of the tables that have a header containing "spread", in table
\* order and then row order.
RECURSIVE OddsTableRows(_)
OddsTableRows(tables) ==
  IF tables = <<>> THEN <<>>
  ELSE (IF isOddsTable(Head(tables)) THEN Head(tables).rows ELSE <<>>)
       \o OddsTableRows(Tail(tables))

\* A row whose moneyline cell is read: four cells, the third neither empty
\* nor the column name.
HasMoneylineCell(row) ==
  Len(row) >= 4 /\ row[3] # <<>> /\ row[3] # StrMoneyline

\* The rows of the article from which a moneyline entry is read, unless the
\* call has thrown before it looked at the tables.
TableMoneylineRows ==
  IF articleTitle = Undefined THEN <<>>
  ELSE SelectSeq(OddsTableRows(oddsData.tables), HasMoneylineCell)

\* The odds patterns that pass the signed-integer filter, in list order.
MatchingOdds == SelectSeq(oddsData.odds, isMoneylineOdd)

\* The fallback association runs and has two patterns to pair.
FallbackFires ==
  /\ articleTitle # Undefined
  /\ Len(TableMoneylineRows) = 0
  /\ Len(MatchingOdds) >= 2

IsSuffix(s, t) ==
  Len(s) <= Len(t) /\ SubSeq(t, Len(t) - Len(s) + 1, Len(t)) = s

\* C1, as stated: the teams list of the result of parseOddsData has at most
\* 2 entries, for every title and odds bundle.
C1_TeamsAtMostTwo ==
  OddsDone => Len(parsed.result.teams) <= 2

\* C1, amended: the teams list holds no name twice, and each of its entries
\* is the canonical name of a dictionary keyword that occurs in the
\* lower-cased title; its length is not limited to 2.
C1_TeamsDistinctAndFromTitle ==
  OddsDone =>
    LET teams == parsed.result.teams
    IN  /\ \A i, j \in 1..Len(teams) : i # j => teams[i] # teams[j]
        /\ \A i \in 1..Len(teams) :
             \E k \in 1..Len(teamPatterns) :
               /\ teamPatterns[k].name = teams[i]
               /\ includes(toLowerCase(articleTitle), teamPatterns[k].pattern)

\* A title that names three teams has been parsed into three entries.
C1_Witness ==
  OddsDone /\ articleTitle = TitleThree /\ Len(parsed.result.teams) = 3

\* C4: when no table row gives a moneyline, the moneyline list of the result
\* has no entry or exactly two, two exactly when at least two odds patterns
\* pass the signed-integer filter, and the two entries carry the first two
\* such patterns in list order.
C4_FallbackAddsZeroOrTwo ==
  OddsDone /\ Len(TableMoneylineRows) = 0 =>
    LET ml == parsed.result.moneyline
    IN  /\ Len(ml) \in {0, 2}
        /\ Len(ml) = 2 <=> FallbackFires
        /\ Len(ml) = 2 =>
             ml[1].odds = MatchingOdds[1] /\ ml[2].odds = MatchingOdds[2]

\* Three patterns pass the filter and two entries were added.
C4_Witness ==
  /\ OddsDone
  /\ FallbackFires
  /\ Len(MatchingOdds) >= 3
  /\ Len(parsed.result.moneyline) = 2

\* C5: when at least one table row gives a moneyline entry, the moneyline
\* list is exactly the entries of those rows, in table and row order, and no
\* odds pattern becomes a moneyline entry.
C5_TableMoneylineOnly ==
  OddsDone /\ Len(TableMoneylineRows) > 0 =>
    parsed.result.moneyline =
      [k \in 1..Len(TableMoneylineRows) |->
         [team |-> TableMoneylineRows[k][1], odds |-> TableMoneylineRows[k][3]]]

\* A table gave a moneyline and two odds patterns pass the filter.
C5_Witness ==
  /\ OddsDone
  /\ Len(TableMoneylineRows) > 0
  /\ Len(MatchingOdds) >= 2
  /\ Len(parsed.result.moneyline) = Len(TableMoneylineRows)

\* The names given to the two fallback entries.
FallbackTeams ==
  <<parsed.result.moneyline[1].team, parsed.result.moneyline[2].team>>

\* C6, as stated: when the fallback fires the two names are the first two
\* team names if 2 teams are known, else the first two fighter names if 2
\* fighters exist, else the first two player names if 2 player props exist,
\* else "Team 1" and "Team 2".
C6_NamesByPriority ==
  OddsDone /\ FallbackFires =>
    LET r == parsed.result
    IN  FallbackTeams =
          IF Len(r.teams) >= 2 THEN <<r.teams[1], r.teams[2]>>
          ELSE IF Len(r.fighters) >= 2
            THEN <<r.fighters[1].name, r.fighters[2].name>>
          ELSE IF Len(r.playerProps) >= 2
            THEN <<r.playerProps[1].player, r.playerProps[2].player>>
          ELSE <<StrTeam1, StrTeam2>>

\* C6, amended: the same priority, but an empty fighter name is replaced by
\* "Fighter 1" / "Fighter 2" and an empty player name by "Player 1" /
\* "Player 2", by position.
C6_NamesByPriorityOrPlaceholder ==
  OddsDone /\ FallbackFires =>
    LET r == parsed.result
        Name(n, placeholder) == IF n = <<>> THEN placeholder ELSE n
    IN  FallbackTeams =
          IF Len(r.teams) >= 2 THEN <<r.teams[1], r.teams[2]>>
          ELSE IF Len(r.fighters) >= 2
            THEN <<Name(r.fighters[1].name, StrFighter1),
                   Name(r.fighters[2].name, StrFighter2)>>
          ELSE IF Len(r.playerProps) >= 2
            THEN <<Name(r.playerProps[1].player, StrPlayer1),
                   Name(r.playerProps[2].player, StrPlayer2)>>
          ELSE <<StrTeam1, StrTeam2>>

\* The fallback fired with fewer than two teams and two fighters whose name
\* cell is empty.
C6_Witness ==
  /\ OddsDone
  /\ FallbackFires
  /\ Len(parsed.result.teams) < 2
  /\ Len(parsed.result.fighters) >= 2
  /\ parsed.result.fighters[1].name = <<>>
  /\ FallbackTeams = <<StrFighter1, StrFighter2>>

\* A row the odds pass cannot read in full: fewer than four cells, or a
\* spread or total cell that does not parse.
MalformedRow(row) ==
  \/ Len(row) < 4
  \/ spreadMatch(row[2]) = <<>>
  \/ totalMatch(row[4]) = <<>>

\* What follows row ri of table ti: the later rows of that table, under its
\* headers, and the later tables.
AfterRow(tables, ti, ri) ==
  <<[headers |-> tables[ti].headers,
     rows |-> SubSeq(tables[ti].rows, ri + 1, Len(tables[ti].rows))]>>
  \o SubSeq(tables, ti + 1, Len(tables))

\* C7: parseOddsData does not raise, and after a malformed row every entry
\* that the later rows of the table and the later tables give is in the
\* result: their entries end each list of the result, and their total, if
\* they have one, is the total of the result.
C7_MalformedRowSkippedAlone ==
  OddsDone =>
    /\ parsed.raised = FALSE
    /\ articleTitle # Undefined =>
         \A ti \in 1..Len(oddsData.tables) :
           \A ri \in 1..Len(oddsData.tables[ti].rows) :
             MalformedRow(oddsData.tables[ti].rows[ri]) =>
               LET later == parseTables(EmptyResult, AfterRow(oddsData.tables, ti, ri))
                   r == parsed.result
               IN  /\ IsSuffix(later.spread, r.spread)
                   /\ IsSuffix(later.moneyline, r.moneyline)
                   /\ IsSuffix(later.fighters, r.fighters)
                   /\ IsSuffix(later.playerProps, r.playerProps)
                   /\ later.total # <<>> => r.total = later.total

\* An odds table whose first row has too few cells and whose second row was
\* read.
C7_Witness ==
  /\ OddsDone
  /\ articleTitle # Undefined
  /\ \E ti \in 1..Len(oddsData.tables) :
       /\ isOddsTable(oddsData.tables[ti])
       /\ oddsData.tables[ti].rows = <<RowShort, RowChiefs>>
  /\ Len(parsed.result.spread) = 1
  /\ parsed.result.spread[1].team = CellChiefs

\* oddsData with row 0 of every table without headers taken as its headers.
Row0AsHeaders(data) ==
  [data EXCEPT !.tables =
     [k \in 1..Len(data.tables) |->
        IF data.tables[k].headers = <<>> /\ data.tables[k].rows # <<>>
          THEN [headers |-> data.tables[k].rows[1], rows |-> Tail(data.tables[k].rows)]
          ELSE data.tables[k]]]

HasHeaders(table) == table.headers # <<>>

\* oddsData without its tables that have no headers.
WithoutHeaderless(data) ==
  [data EXCEPT !.tables = SelectSeq(data.tables, HasHeaders)]

\* C9, as stated: a table without headers is interpreted with row 0 as its
\* headers, row 0 not being parsed as data.
C9_HeaderlessUsesRow0 ==
  OddsDone /\ articleTitle # Undefined =>
    parsed.result = parseOddsData(Row0AsHeaders(oddsData), articleTitle).result

\* C9, amended: a table without headers passes no kind check and gives no
\* entry: the result is that of the article without the table.  Row 0 is
\* not parsed as data, and neither is it used as headers.
C9_HeaderlessTableIgnored ==
  OddsDone =>
    parsed.result = parseOddsData(WithoutHeaderless(oddsData), articleTitle).result

\* A table without headers, whose row 0 repeats the column names and whose
\* row 1 holds odds, gave nothing.
C9_Witness ==
  /\ OddsDone
  /\ articleTitle # Undefined
  /\ oddsData.tables = <<[headers |-> <<>>, rows |-> <<RowHeaderEcho, RowChiefs>>]>>
  /\ parsed.result.spread = <<>>
  /\ parsed.result.total = <<>>

\* A row whose total cell is read: four cells, the fourth neither empty nor
\* the column name.
HasTotalCell(row) == Len(row) >= 4 /\ row[4] # <<>> /\ row[4] # StrTotal

\* line is the first decimal number of cell: it starts at the first digit
\* of the cell and takes the digits, one point if it follows them, and the
\* digits after the point.
IsFirstNumber(cell, line) ==
  \E i \in 1..Len(cell) : \E j \in i..Len(cell) :
    /\ line = SubSeq(cell, i, j)
    /\ IsDigit(cell[i])
    /\ \A k \in 1..(i - 1) : ~IsDigit(cell[k])
    /\ \A k \in i..j : IsDigit(cell[k]) \/ cell[k] = "."
    /\ Cardinality({k \in i..j : cell[k] = "."}) <= 1
    /\ ~IsDigit(At(cell, j + 1))
    /\ At(cell, j + 1) = "." => \E k \in i..j : cell[k] = "."

\* The rows of the odds tables whose total cell is read and holds a number.
TotalRows ==
  IF articleTitle = Undefined THEN <<>>
  ELSE SelectSeq(OddsTableRows(oddsData.tables),
                 LAMBDA row : HasTotalCell(row) /\ \E k \in 1..Len(row[4]) : IsDigit(row[4][k]))

\* C10, as stated: the total has over and under equal to "-110".
C10_TotalPlaceholderBare ==
  OddsDone /\ TotalRows # <<>> =>
    /\ parsed.result.total # <<>>
    /\ IsFirstNumber(TotalRows[Len(TotalRows)][4], parsed.result.total[1].line)
    /\ parsed.result.total[1].over = <<"-","1","1","0">>
    /\ parsed.result.total[1].under = <<"-","1","1","0">>

\* C10, amended: the total of the result is the one of the last row whose
\* total cell is read and holds a number; its line is the first decimal
\* number of the cell and its over and under are both the fixed string
\* "(-110)".  Without such a row the total is null.
C10_TotalLineAndPlaceholder ==
  OddsDone =>
    IF TotalRows = <<>> THEN parsed.result.total = <<>>
    ELSE /\ Len(parsed.result.total) = 1
         /\ IsFirstNumber(TotalRows[Len(TotalRows)][4], parsed.result.total[1].line)
         /\ parsed.result.total[1].over = <<"(","-","1","1","0",")">>
         /\ parsed.result.total[1].under = <<"(","-","1","1","0",")">>

\* The cell "48.5" gave the line "48.5".
C10_Witness ==
  /\ OddsDone
  /\ TotalRows # <<>>
  /\ TotalRows[Len(TotalRows)] = RowChiefs
  /\ parsed.result.total = <<[line |-> <<"4","8",".","5">>,
                              over |-> StrDefaultOdds, under |-> StrDefaultOdds]>>

----------------------------------------------------------------------------
(* Properties of the sanitizer functions, over SpecSanitizer *)

SanDone == sanPc = "done"

\* The text of an entry of the collection handed to, or returned by, the
\* sanitizer function called.
TextOfEntry(entry) ==
  IF sanitizer \in {"cleanHeadings", "cleanLists"} THEN entry.text ELSE entry

IsString(text) == text # Undefined

\* The normalized (lower case, trim, collapse white space) texts of the
\* entries of a collection; Undefined for an entry whose text is no string.
NormalizedTexts(collection) ==
  [i \in 1..Len(collection) |->
     IF IsString(TextOfEntry(collection[i]))
       THEN normalized(TextOfEntry(collection[i]))
       ELSE Undefined]

\* The positions at which the normalized text is n.
ClassAt(norms, n) == {i \in 1..Len(norms) : norms[i] = n}

MinOf(S) == CHOOSE i \in S : \A j \in S : i <= j

\* The entry as the function called returns it: cleanParagraphs trims.
Returned(entry) == IF sanitizer = "cleanParagraphs" THEN trim(entry) ELSE entry

\* C2 as the specification states it: when two or more entries of the input
\* normalize to the same string, the output holds exactly one entry of that
\* class, and it is the first such entry of the input (trimmed, where the
\* function trims).
C2_DuplicateKeptOnceAsFirst ==
  SanDone =>
    LET inN  == NormalizedTexts(sanInput)
        outN == NormalizedTexts(sanOutput)
    IN  \A i \in 1..Len(inN) :
          (inN[i] # Undefined /\ Cardinality(ClassAt(inN, inN[i])) >= 2) =>
            /\ Cardinality(ClassAt(outN, inN[i])) = 1
            /\ sanOutput[MinOf(ClassAt(outN, inN[i]))]
                 = Returned(sanInput[MinOf(ClassAt(inN, inN[i]))])

\* The least length of the trimmed text that the function called keeps.
MinLengthOf(f) ==
  IF f = "cleanHeadings" THEN 3 ELSE IF f = "cleanLists" THEN 5 ELSE 10

\* The text passes the filters that follow the duplicate filter.
PassesLaterFilters(text) ==
  /\ Len(trim(text)) > MinLengthOf(sanitizer)
  /\ sanitizer = "cleanHeadings" =>
       /\ ~includes(toLowerCase(text), KwTerms)
       /\ ~includes(toLowerCase(text), KwOnThisPage)

\* C2, amended: of the entries that normalize to one string the output holds
\* at most one.  It holds the first of them that is not junk, provided that
\* entry also passes the length (and heading) filters, and none otherwise;
\* cleanParagraphs returns the entry trimmed.
C2_AtMostOnceFirstNotJunk ==
  SanDone =>
    LET inN  == NormalizedTexts(sanInput)
        outN == NormalizedTexts(sanOutput)
    IN  \A i \in 1..Len(inN) :
          inN[i] # Undefined =>
            LET notJunk == {k \in ClassAt(inN, inN[i]) :
                              ~isJunkText(TextOfEntry(sanInput[k]))}
                out     == ClassAt(outN, inN[i])
            IN  IF /\ notJunk # {}
                   /\ PassesLaterFilters(TextOfEntry(sanInput[MinOf(notJunk)]))
                  THEN /\ Cardinality(out) = 1
                       /\ sanOutput[MinOf(out)] = Returned(sanInput[MinOf(notJunk)])
                  ELSE out = {}

\* C2's case: the input holds two entries that differ and normalize to the
\* same string, and the output holds the first of them only.
C2_Witness ==
  /\ SanDone
  /\ sanitizer = "cleanHeadings"
  /\ \E i, j \in 1..Len(sanInput) :
       /\ i < j
       /\ sanInput[i] # sanInput[j]
       /\ normalized(sanInput[i].text) = normalized(sanInput[j].text)
       /\ sanOutput = <<sanInput[i]>>

RECURSIVE IsSubsequence(_, _)
IsSubsequence(a, b) ==
  IF a = <<>> THEN TRUE
  ELSE IF b = <<>> THEN FALSE
  ELSE IF Head(a) = Head(b) THEN IsSubsequence(Tail(a), Tail(b))
  ELSE IsSubsequence(a, Tail(b))

\* C3 as the specification states it: the output of every sanitizer function
\* is a subsequence of its input, the entries in their original order and
\* none replaced by a different entry.
C3_OutputSubsequenceOfInput ==
  SanDone => IsSubsequence(sanOutput, sanInput)

\* C3, amended: the output is a subsequence, in the original order, of the
\* input entries as the function returns them: unchanged, but for
\* cleanParagraphs, which returns each surviving paragraph trimmed.
C3_OutputSubsequenceUpToTrim ==
  SanDone =>
    /\ IsSubsequence(sanOutput, [i \in 1..Len(sanInput) |-> Returned(sanInput[i])])
    /\ sanitizer # "cleanParagraphs" => IsSubsequence(sanOutput, sanInput)

\* C3's case: cleanParagraphs drops an entry from between two that it keeps,
\* and returns a padded paragraph trimmed.
C3_Witness ==
  /\ SanDone
  /\ sanitizer = "cleanParagraphs"
  /\ Len(sanInput) = 3
  /\ sanOutput = <<trim(sanInput[1]), trim(sanInput[3])>>
  /\ sanOutput[1] # sanInput[1]

----------------------------------------------------------------------------
(* Properties of the article loop and saveComprehensiveData, over SpecFeed *)

\* The turns of the article loop in which extractOddsFromArticle failed.
FailedArticles ==
  {i \in 1..Len(articlesWithOdds) : "error" \in DOMAIN articlesWithOdds[i].oddsData}

\* An explicit error marker for a failed article: its url, empty structured
\* fields and the error description.
IsErrorMarker(entry, url, description) ==
  /\ entry.link = url
  /\ entry.oddsData.tables = <<>>
  /\ entry.oddsData.odds = <<>>
  /\ "error" \in DOMAIN entry.oddsData
  /\ entry.oddsData.error = description

\* C8 as the specification states it: the saved output has exactly one entry
\* per feed item, in feed order, and the entry of an article whose processing
\* failed is an explicit error marker carrying the error description.
C8_FailedArticleKeptAsErrorMarker ==
  feedPc = "saved" =>
    LET articles == comprehensive[1].articles
    IN  /\ Len(articles) = Len(feedItems)
        /\ \A i \in 1..Len(feedItems) : articles[i].link = feedItems[i].link
        /\ \A i \in FailedArticles :
             IsErrorMarker(articles[i], feedItems[i].link,
                           articlesWithOdds[i].oddsData.error)

\* What does hold of the article loop itself: rss_with_odds.json has one
\* entry per feed item, in feed order, a failed article as the marker.
LoopKeepsErrorMarkers ==
  feedPc \in {"written", "saved"} =>
    LET enhanced == rssWithOdds[1].articlesWithOdds
    IN  /\ Len(enhanced) = Len(feedItems)
        /\ \A i \in 1..Len(feedItems) : enhanced[i].rssItem = feedItems[i]
        /\ \A i \in FailedArticles :
             /\ enhanced[i].oddsData.title = StrError
             /\ enhanced[i].oddsData.url = feedItems[i].link
             /\ enhanced[i].oddsData.tables = <<>>
             /\ enhanced[i].oddsData.odds = <<>>

\* The saved output still has one entry per article, in order.
SavedKeepsCount ==
  feedPc = "saved" =>
    /\ Len(comprehensive[1].articles) = Len(feedItems)
    /\ \A i \in 1..Len(feedItems) : comprehensive[1].articles[i].link = feedItems[i].link

----------------------------------------------------------------------------
(* Properties of the table passes, over SpecOdds *)

\* s is an unsigned decimal: digits, then at most one point, then digits.
IsDecimal(s) ==
  /\ s # <<>>
  /\ IsDigit(s[1])
  /\ \A k \in 1..Len(s) : IsDigit(s[k]) \/ s[k] = "."
  /\ Cardinality({k \in 1..Len(s) : s[k] = "."}) <= 1

\* The text holds `signed-decimal (signed-integer)`: a sign, a decimal,
\* white space if any, and a signed integer in parentheses.
HasSpreadPattern(cell) ==
  \E i \in 1..Len(cell) : \E e \in (i + 1)..Len(cell) :
    \E p \in (e + 1)..Len(cell) : \E q \in (p + 3)..Len(cell) :
      /\ IsSign(cell[i])
      /\ IsDecimal(SubSeq(cell, i + 1, e))
      /\ \A k \in (e + 1)..(p - 1) : IsSpace(cell[k])
      /\ cell[p] = "("
      /\ IsSign(cell[p + 1])
      /\ \A k \in (p + 2)..(q - 1) : IsDigit(cell[k])
      /\ cell[q] = ")"

\* A data row that gives a spread entry: at least 4 cells, the spread cell
\* not empty, not the column name, and holding the pattern.
SpreadRow(row) ==
  /\ Len(row) >= 4
  /\ row[2] # <<>>
  /\ row[2] # StrSpread
  /\ HasSpreadPattern(row[2])

\* The data rows of the odds-shaped tables, as the call reads them: none
\* when it has thrown before it looked at the tables.
DataRows ==
  IF articleTitle = Undefined THEN <<>> ELSE OddsTableRows(oddsData.tables)

\* C11: every data row of an odds-shaped table gives exactly one spread
\* entry when it has 4 cells or more and a spread cell that is not empty,
\* not the column name and holds the pattern, and none otherwise: the
\* spread entries are those of such rows, one each and in row order, so
\* that entries plus skipped rows number the data rows.
C11_OneSpreadEntryPerSpreadRow ==
  OddsDone =>
    LET given   == SelectSeq(DataRows, SpreadRow)
        skipped == SelectSeq(DataRows, LAMBDA row : ~SpreadRow(row))
        spread  == parsed.result.spread
    IN  /\ Len(spread) = Len(given)
        /\ \A k \in 1..Len(spread) :
             /\ spread[k].team = given[k][1]
             /\ spread[k].line # <<>>
             /\ spread[k].odds # <<>>
        /\ Len(spread) + Len(skipped) = Len(DataRows)

\* An odds-shaped table with one row that gives a spread entry and two that
\* are skipped: a spread text without the pattern, and too few cells.
C11_Witness ==
  /\ OddsDone
  /\ Len(DataRows) = 3
  /\ \E k \in 1..3 : DataRows[k] = RowBills
  /\ \E k \in 1..3 : DataRows[k] = RowShort
  /\ Len(parsed.result.spread) = 1

\* The rows of the tables that have a header containing "fighter", and of
\* those that have a header containing "player", in table and row order.
RECURSIVE FighterTableRows(_)
FighterTableRows(tables) ==
  IF tables = <<>> THEN <<>>
  ELSE (IF \E k \in 1..Len(Head(tables).headers) :
              includes(toLowerCase(Head(tables).headers[k]), KwFighter)
          THEN Head(tables).rows ELSE <<>>)
       \o FighterTableRows(Tail(tables))

RECURSIVE PlayerTableRows(_)
PlayerTableRows(tables) ==
  IF tables = <<>> THEN <<>>
  ELSE (IF \E k \in 1..Len(Head(tables).headers) :
              includes(toLowerCase(Head(tables).headers[k]), KwPlayer)
          THEN Head(tables).rows ELSE <<>>)
       \o PlayerTableRows(Tail(tables))

\* C12: the three kind checks are independent.  Whatever else its headers
\* contain, a table with a header containing "fighter" gives a fighter
\* entry for each row of 2 cells or more, a table with a header containing
\* "player" a player-prop entry for each row of 3 cells or more, and a table
\* with a header containing "spread" a spread entry for each spread row.
C12_KindChecksIndependent ==
  OddsDone /\ articleTitle # Undefined =>
    LET fighterRws == SelectSeq(FighterTableRows(oddsData.tables),
                                LAMBDA row : Len(row) >= 2)
        playerRws  == SelectSeq(PlayerTableRows(oddsData.tables),
                                LAMBDA row : Len(row) >= 3)
        spreadRws  == SelectSeq(OddsTableRows(oddsData.tables), SpreadRow)
        r == parsed.result
    IN  /\ r.fighters =
             [k \in 1..Len(fighterRws) |->
                [name |-> fighterRws[k][1], odds |-> fighterRws[k][2]]]
        /\ r.playerProps =
             [k \in 1..Len(playerRws) |->
                [player |-> playerRws[k][1], team |-> playerRws[k][2],
                 prop |-> StrPoints, odds |-> playerRws[k][3]]]
        /\ [k \in 1..Len(r.spread) |-> r.spread[k].team] =
             [k \in 1..Len(spreadRws) |-> spreadRws[k][1]]

\* One table whose headers contain "player", "spread" and "fighter": its
\* one row gave a spread, a moneyline, a total, a fighter and a player prop.
C12_Witness ==
  /\ OddsDone
  /\ oddsData.tables = <<[headers |-> HeadersMixed, rows |-> <<RowChiefs>>]>>
  /\ Len(parsed.result.spread) = 1
  /\ Len(parsed.result.moneyline) = 1
  /\ parsed.result.total # <<>>
  /\ parsed.result.fighters = <<[name |-> CellChiefs, odds |-> RowChiefs[2]]>>
  /\ Len(parsed.result.playerProps) = 1

----------------------------------------------------------------------------
(* Properties of the junk filter, over SpecSanitizer *)

\* The text matches a pattern of the junk list, case ignored.
MatchesJunk(text) ==
  /\ IsString(text)
  /\ LET low == [i \in 1..Len(text) |-> LowerChar(text[i])]
     IN  \E k \in 1..Len(junkPatterns) :
           \E i \in 1..(Len(low) - Len(junkPatterns[k]) + 1) :
             \A j \in 1..Len(junkPatterns[k]) : low[i + j - 1] = junkPatterns[k][j]

\* C13: no entry that matches a junk pattern survives: the output of every
\* sanitizer function holds no entry whose text matches a pattern of the
\* junk list, so an input entry that matches one is absent from it.
C13_NoJunkInOutput ==
  SanDone =>
    /\ \A k \in 1..Len(sanOutput) : ~MatchesJunk(TextOfEntry(sanOutput[k]))
    /\ \A i \in 1..Len(sanInput) :
         MatchesJunk(TextOfEntry(sanInput[i])) =>
           \A k \in 1..Len(sanOutput) : sanOutput[k] # Returned(sanInput[i])

\* The hotline text stood twice in the input, around an entry that was
\* kept, and is gone.
C13_Witness ==
  /\ SanDone
  /\ sanitizer = "cleanPicks"
  /\ sanInput = <<TextHotline, TextMatchup, TextHotline>>
  /\ sanOutput = <<TextMatchup>>

----------------------------------------------------------------------------
(* Properties of extractSport, over SpecSport *)

\* The sports in the order of their declaration, each with its keywords.
SportsDeclared ==
  <<[sport |-> "basketball_nba",
     keywords |-> {<<"n","b","a">>, <<"b","a","s","k","e","t","b","a","l","l">>}],
    [sport |-> "americanfootball_nfl",
     keywords |-> {<<"n","f","l">>, <<"f","o","o","t","b","a","l","l">>}],
    [sport |-> "baseball_mlb",
     keywords |-> {<<"m","l","b">>, <<"b","a","s","e","b","a","l","l">>}],
    [sport |-> "icehockey_nhl",
     keywords |-> {<<"n","h","l">>, <<"h","o","c","k","e","y">>}],
    [sport |-> "soccer",
     keywords |-> {<<"s","o","c","c","e","r">>, <<"f","i","f","a">>}]>>

\* The word occurs at position i of the text.
OccursAt(word, text, i) ==
  /\ i + Len(word) - 1 <= Len(text)
  /\ \A j \in 1..Len(word) : text[i + j - 1] = word[j]

\* The declared sports of which a keyword occurs in the title or in the
\* description.
SportsNamed ==
  {k \in 1..Len(SportsDeclared) :
     \E word \in SportsDeclared[k].keywords :
       \/ \E i \in 1..Len(sportText.title) : OccursAt(word, sportText.title, i)
       \/ \E i \in 1..Len(sportText.description) :
            OccursAt(word, sportText.description, i)}

\* C14: sport recognition returns at most one sport key: the sport declared
\* first among those of which a keyword occurs in the text, and null when
\* no keyword occurs.
C14_FirstDeclaredSportOrNull ==
  sportPc = "done" =>
    /\ Len(sport) <= 1
    /\ SportsNamed = {} => sport = <<>>
    /\ SportsNamed # {} =>
         sport = <<SportsDeclared[CHOOSE k \in SportsNamed :
                                    \A j \in SportsNamed : k <= j].sport>>

\* Keywords of hockey, in the title, and of baseball, in the description:
\* the result is baseball.
C14_Witness ==
  /\ sportPc = "done"
  /\ SportsNamed = {3, 4}
  /\ \E i \in 1..Len(sportText.title) :
       OccursAt(<<"h","o","c","k","e","y">>, sportText.title, i)
  /\ sport = <<"baseball_mlb">>

----------------------------------------------------------------------------
(* Team recognition, over SpecOdds *)

\* The word occurs somewhere in the text.
Occurs(word, text) == \E i \in 1..Len(text) : OccursAt(word, text, i)

\* The dictionary entries whose keyword occurs in the lower-cased title.
KeywordsInTitle ==
  {k \in 1..Len(teamPatterns) :
     Occurs(teamPatterns[k].pattern, toLowerCase(articleTitle))}

\* C15: the teams of a title are the canonical names of the keywords that
\* occur in the lower-cased title, each name once, in the order in which the
\* dictionary declares their (first occurring) keywords, whatever their
\* order in the title; "Lakers vs Warriors - NBA Game Tonight" gives
\* Lakers, Warriors.
C15_TeamsInDeclarationOrder ==
  OddsDone /\ articleTitle # Undefined =>
    LET teams == parsed.result.teams
        ks == KeywordsInTitle
        first(name) == CHOOSE k \in ks :
                         /\ teamPatterns[k].name = name
                         /\ \A j \in ks : teamPatterns[j].name = name => k <= j
    IN  /\ {teams[i] : i \in 1..Len(teams)} = {teamPatterns[k].name : k \in ks}
        /\ \A i, j \in 1..Len(teams) : i # j => teams[i] # teams[j]
        /\ \A i, j \in 1..Len(teams) :
             i < j => first(teams[i]) < first(teams[j])
        /\ articleTitle = TitleLakers =>
             teams = <<<<"L","a","k","e","r","s">>,
                       <<"W","a","r","r","i","o","r","s">>>>

\* A title that names Chiefs, Bills and Eagles in this order has been parsed
\* into Eagles, Chiefs, Bills, the order of the dictionary.
C15_Witness ==
  /\ OddsDone
  /\ articleTitle = TitleThree
  /\ parsed.result.teams = <<<<"E","a","g","l","e","s">>,
                             <<"C","h","i","e","f","s">>,
                             <<"B","i","l","l","s">>>>

----------------------------------------------------------------------------
(* The odds patterns of the scraper, over SpecScan *)

\* The positions of the text at which pattern p matches.
MatchPositions(p) ==
  {j \in 1..Len(pageText) : oddsPatternEnd(p, pageText, j) > 0}

\* The positions at which the scan of pattern p finds its matches: no match
\* begins inside an earlier one, and every other position at which the
\* pattern matches lies inside a match of the scan.
ScanStarts(p) ==
  CHOOSE S \in SUBSET MatchPositions(p) :
    /\ \A i, j \in S : i < j => oddsPatternEnd(p, pageText, i) <= j
    /\ \A j \in MatchPositions(p) \ S :
         \E i \in S : i < j /\ j < oddsPatternEnd(p, pageText, i)

\* The substrings that the scan of pattern p matches, from left to right.
ScanOf(p) ==
  LET S == ScanStarts(p)
  IN  [n \in 1..Cardinality(S) |->
         LET j == CHOOSE k \in S : Cardinality({i \in S : i < k}) = n - 1
         IN  SubSeq(pageText, j, oddsPatternEnd(p, pageText, j) - 1)]

\* C16: the odds of a page are the matches of the first pattern scan, then
\* those of the second, the third and the fourth, each scan in the order of
\* its matches in the text; every match is kept as the raw substring, and a
\* substring that is matched several times is listed once per match.
C16_ScansConcatenated ==
  scanPc = "done" =>
    pageOdds = ScanOf(1) \o ScanOf(2) \o ScanOf(3) \o ScanOf(4)

\* "+150 -110 Point +150" has been scanned: "-110" is matched by the first
\* and by the third scan, "+150" twice by the third.
C16_Witness ==
  /\ scanPc = "done"
  /\ pageText = <<"+","1","5","0"," ","-","1","1","0"," ","P","o","i","n","t",
                  " ","+","1","5","0">>
  /\ pageOdds = <<<<"-","1","1","0"," ","P","o","i","n","t">>,
                  <<"+","1","5","0">>, <<"-","1","1","0">>, <<"+","1","5","0">>>>

----------------------------------------------------------------------------
(* Repeated normalisation, over SpecRepeat *)

----------------------------------------------------------------------------
(* AI enrichment, over SpecEnrich *)

\* The articles given to the enrichment that are not null, in their order.
ArticlesGiven == SelectSeq(aiArticles, LAMBDA a : "missing" \notin DOMAIN a)

\* The two articles have the same properties with the same values, but for
\* aiAnalysis.
SameButAiAnalysis(before, after) ==
  /\ DOMAIN after \ {"aiAnalysis"} = DOMAIN before \ {"aiAnalysis"}
  /\ \A f \in DOMAIN before \ {"aiAnalysis"} : after[f] = before[f]

\* C18: enrichment changes nothing of an article but aiAnalysis: every
\* article of the loop's array, and of what is written or returned at the
\* end, has the title, link, pubDate, category, fullContent and oddsData of
\* the article it was made from.
C18_OnlyAiAnalysisDiffers ==
  /\ Len(enhancedArticles) <= Len(ArticlesGiven)
  /\ \A k \in 1..Len(enhancedArticles) :
       /\ SameButAiAnalysis(ArticlesGiven[k], enhancedArticles[k])
       /\ {"title", "link", "pubDate", "category", "fullContent", "oddsData"}
            \subseteq DOMAIN enhancedArticles[k]
  /\ enrichPc = "done" =>
       /\ aiEnhanced[1].articles = enhancedArticles
       /\ Len(enhancedArticles) = Len(ArticlesGiven)

\* The script has written two enriched articles, each with an analysis that
\* it did not have before.
C18_Witness ==
  /\ enrichPc = "done"
  /\ enricher = "processSportsDataWithAI"
  /\ Len(aiEnhanced[1].articles) = 2
  /\ \A k \in 1..2 :
       /\ aiEnhanced[1].articles[k].aiAnalysis \in {AiAnalyses[a] : a \in 1..Len(AiAnalyses)}
       /\ aiArticles[k].aiAnalysis = EmptyAiAnalysis
       /\ aiEnhanced[1].articles[k].oddsData = aiArticles[k].oddsData
  /\ aiArticles[1].title # aiArticles[2].title

----------------------------------------------------------------------------
(* The feed of getRSSFeed, over SpecAssemble *)

\* A call of getRSSFeed has returned a feed.
FeedReturned == assemblePc = "done" /\ ~returned.raised

\* C19, as stated: lastUpdated is the last-AI-update time stamp supplied
\* with the AI-enriched data when that data is the source, and the current
\* time otherwise.
C19_LastAiUpdateOrNow ==
  FeedReturned =>
    /\ Len(aiFile) > 0 /\ Len(aiFile[1].lastAIUpdate) > 0 =>
         returned.feed[1].lastUpdated = aiFile[1].lastAIUpdate[1]
    /\ Len(aiFile) = 0 => returned.feed[1].lastUpdated = now

\* C19, amended: lastUpdated is the time stamp stored in the file that is
\* read, lastAIUpdate of the AI file where it exists and lastUpdated of
\* rss_with_odds.json otherwise; it is the current time only where that
\* file holds no such time stamp.
C19_StoredTimestampOrNow ==
  FeedReturned =>
    LET stored == IF Len(aiFile) > 0 THEN aiFile[1].lastAIUpdate
                  ELSE rssFile[1].lastUpdated
    IN  /\ stored # <<>> => returned.feed[1].lastUpdated = stored[1]
        /\ stored = <<>> => returned.feed[1].lastUpdated = now

\* Without the AI file, a feed read at time 3 from a file written at time 1
\* is dated 1.
C19_Witness ==
  /\ FeedReturned
  /\ aiFile = <<>>
  /\ rssFile[1].lastUpdated = <<1>>
  /\ Len(rssFile[1].articlesWithOdds) = 1
  /\ now = 3
  /\ returned.feed[1].lastUpdated = 1

\* The position of the first occurrence of the word in the text, 0 when it
\* does not occur.
FirstAt(word, text) ==
  LET at == {i \in 1..Len(text) : OccursAt(word, text, i)}
  IN  IF at = {} THEN 0 ELSE CHOOSE i \in at : \A j \in at : i <= j

\* The titles of the six sections of a description, in the stated order:
\* teams, spread, moneyline, total, player props, fighters.
SectionTitles ==
  <<<<"*","*","T","e","a","m","s",":","*","*">>,
    <<"*","*","S","p","r","e","a","d",":","*","*">>,
    <<"*","*","M","o","n","e","y","l","i","n","e",":","*","*">>,
    <<"*","*","T","o","t","a","l",":","*","*">>,
    <<"*","*","P","l","a","y","e","r"," ","P","r","o","p","s",":","*","*">>,
    <<"*","*","F","i","g","h","t","e","r","s",":","*","*">>>>

\* Whether the data of section k is there, in the odds of an item.
SectionData(odds, k) ==
  CASE k = 1 -> Len(odds.teams) > 0
    [] k = 2 -> Len(odds.spread) > 0
    [] k = 3 -> Len(odds.moneyline) > 0
    [] k = 4 -> Len(odds.total) > 0
    [] k = 5 -> Len(odds.playerProps) > 0
    [] k = 6 -> Len(odds.fighters) > 0

\* The items of a feed that was read from rss_with_odds.json.
ItemsFromRss ==
  IF FeedReturned /\ Len(aiFile) = 0 THEN returned.feed[1].items ELSE <<>>

\* C20: in the description of an item, a section is there exactly when its
\* data is; the sections that are there follow one another in the order
\* teams, spread, moneyline, total, player props, fighters; the props
\* listed are all of them up to 5 and never more than 5; and "... and N
\* more" follows exactly when there are more than 5, N being their number
\* less 5.
C20_SectionsInOrderPropsCapped ==
  \A n \in 1..Len(ItemsFromRss) :
    LET item  == ItemsFromRss[n]
        text  == item.description
        at    == [k \in 1..6 |-> FirstAt(SectionTitles[k], text)]
        props == Len(item.odds.playerProps)
        shown == Cardinality({i \in 1..Len(text) : text[i] = "(bullet)"})
                   - Len(item.odds.fighters)
        more  == FirstAt(<<".",".","."," ","a","n","d"," ">>, text)
    IN  /\ \A k \in 1..6 : at[k] > 0 <=> SectionData(item.odds, k)
        /\ \A j, k \in 1..6 : j < k /\ at[j] > 0 /\ at[k] > 0 => at[j] < at[k]
        /\ shown = IF props < 5 THEN props ELSE 5
        /\ more > 0 <=> props > 5
        /\ props > 5 =>
             /\ props - 5 < 10
             /\ OccursAt(<<<<"1","2","3","4","5","6","7","8","9">>[props - 5]>>
                           \o <<" ","m","o","r","e">>, text, more + 8)
             /\ at[5] < more
             /\ at[6] > 0 => more < at[6]

\* An item with all six sections and six player props: five are listed,
\* and "... and 1 more".
C20_Witness ==
  /\ Len(ItemsFromRss) = 1
  /\ \A k \in 1..6 : SectionData(ItemsFromRss[1].odds, k)
  /\ Len(ItemsFromRss[1].odds.playerProps) = 6
  /\ FirstAt(<<".",".","."," ","a","n","d"," ","1"," ","m","o","r","e">>,
             ItemsFromRss[1].description) > 0

----------------------------------------------------------------------------
(* Properties of the sports routes, over SpecApi *)

\* C21: when the external sports API is unavailable or the call fails, the
\* sports routes (/api/sports, /api/games, /api/odds) answer with data, status
\* 200, and not with an error.
C21_FallsBackToMockData ==
  \A i \in 1..Len(apiCalls) :
    apiCalls[i].axios = "rejected" =>
      /\ Len(apiResponses[i]) = 1
      /\ apiResponses[i][1].status = 200

\* What the routes do instead: a failed call is answered once, with status
\* 500 and the route's error message.
FailedCallAnswers500 ==
  \A i \in 1..Len(apiCalls) :
    apiCalls[i].axios = "rejected" =>
      /\ Len(apiResponses[i]) = 1
      /\ apiResponses[i][1] = routeError(apiCalls[i])

----------------------------------------------------------------------------
(* Properties of parseOddsData over several tables, over SpecOdds *)

\* One table of one row for each row of each table, with the headers of the
\* row's table, in table order and then row order.
RECURSIVE RowTables(_)
RowTables(tables) ==
  IF tables = <<>> THEN <<>>
  ELSE [k \in 1..Len(Head(tables).rows) |->
          [headers |-> Head(tables).headers, rows |-> <<Head(tables).rows[k]>>]]
       \o RowTables(Tail(tables))

\* What one row alone gives: the entries of the article that has this one
\* row in this one table.
RowEntries(rowTable) == parseTable(EmptyResult, rowTable)

RECURSIVE Concatenation(_)
Concatenation(lists) ==
  IF lists = <<>> THEN <<>> ELSE Head(lists) \o Concatenation(Tail(lists))

\* The entries of a kind that the rows give, in table and row order.
SpreadOfRows ==
  Concatenation([k \in 1..Len(RowTables(oddsData.tables)) |->
                   RowEntries(RowTables(oddsData.tables)[k]).spread])
MoneylineOfRows ==
  Concatenation([k \in 1..Len(RowTables(oddsData.tables)) |->
                   RowEntries(RowTables(oddsData.tables)[k]).moneyline])
FightersOfRows ==
  Concatenation([k \in 1..Len(RowTables(oddsData.tables)) |->
                   RowEntries(RowTables(oddsData.tables)[k]).fighters])
PlayerPropsOfRows ==
  Concatenation([k \in 1..Len(RowTables(oddsData.tables)) |->
                   RowEntries(RowTables(oddsData.tables)[k]).playerProps])
\* The totals of the rows that have a total field that parses.
TotalsOfRows ==
  Concatenation([k \in 1..Len(RowTables(oddsData.tables)) |->
                   RowEntries(RowTables(oddsData.tables)[k]).total])

----------------------------------------------------------------------------
(* Properties of getGamesFromRSS, over SpecGames *)

GamesDone == gamesPc = "done"

\* The title and the description of an item in lower case, a space between
\* them: the text in which the sport and the teams are looked for.
ItemText(item) ==
  [i \in 1..Len(item.title) |-> LowerChar(item.title[i])] \o <<" ">>
    \o [i \in 1..Len(item.description) |-> LowerChar(item.description[i])]

\* The team keywords that occur in the text of an item, each a string.
TeamKeywordsIn(item) ==
  {word \in {teamKeywords[k] : k \in 1..Len(teamKeywords)} :
     Occurs(word, ItemText(item))}

\* The place of a keyword in the dictionary: its first position in the list.
DictionaryPlace(word) ==
  CHOOSE k \in 1..Len(teamKeywords) :
    /\ teamKeywords[k] = word
    /\ \A j \in 1..(k - 1) : teamKeywords[j] # word

\* The n-th, in dictionary order, of a set of keywords.
NthKeyword(words, n) ==
  CHOOSE word \in words :
    Cardinality({other \in words :
                   DictionaryPlace(other) < DictionaryPlace(word)}) = n - 1

\* An item that gives a game: it has a title and a description, a keyword of
\* a sport occurs in its text, and so do two distinct team keywords at least.
GivesGame(item) ==
  /\ item.title # Undefined
  /\ item.description # Undefined
  /\ \E k \in 1..Len(SportsDeclared) :
       \E word \in SportsDeclared[k].keywords : Occurs(word, ItemText(item))
  /\ Cardinality(TeamKeywordsIn(item)) >= 2

\* The items of the feed that give a game, in feed order.
RECURSIVE GameItemsOf(_)
GameItemsOf(items) ==
  IF items = <<>> THEN <<>>
  ELSE (IF GivesGame(Head(items)) THEN <<Head(items)>> ELSE <<>>)
       \o GameItemsOf(Tail(items))

\* C23: getGamesFromRSS yields a game for a feed item if and only if a sport
\* is recognized in the title and description of the item and at least two
\* distinct team keywords occur in them; any other item is skipped without
\* error; the away team of the game is the first and its home team the
\* second, in dictionary order, of the keywords that occur; and the games
\* stand in the order of their items.
C23_GameIffSportAndTwoTeams ==
  GamesDone /\ ~gamesFeed.raised =>
    LET given == GameItemsOf(gamesFeed.items)
    IN  /\ ~games.raised
        /\ Len(games.games) = Len(given)
        /\ \A n \in 1..Len(given) :
             /\ games.games[n].awayTeam = NthKeyword(TeamKeywordsIn(given[n]), 1)
             /\ games.games[n].homeTeam = NthKeyword(TeamKeywordsIn(given[n]), 2)

\* A feed of an item without a sport, which names two teams, and of an item
\* that names Celtics before Lakers: the one game is that of the second
\* item, Lakers away and Celtics home.
C23_Witness ==
  /\ GamesDone
  /\ gamesFeed.items = <<GameItems[4], GameItems[2]>>
  /\ Cardinality(TeamKeywordsIn(GameItems[4])) >= 2
  /\ ~games.raised
  /\ Len(games.games) = 1
  /\ games.games[1].awayTeam = <<"l","a","k","e","r","s">>
  /\ games.games[1].homeTeam = <<"c","e","l","t","i","c","s">>

----------------------------------------------------------------------------
(* The sanitizer functions applied to their own output, over SpecSanitizer *)

\* The function called, applied to a collection.
Applied(f, collection) ==
  CASE f = "cleanParagraphs" -> cleanParagraphs(collection)
    [] f = "cleanHeadings" -> cleanHeadings(collection)
    [] f = "cleanLists" -> cleanLists(collection)
    [] f = "cleanBettingTrends" -> cleanBettingTrends(collection)
    [] f = "cleanPicks" -> cleanPicks(collection)
    [] f = "cleanAnalysis" -> cleanAnalysis(collection)
    [] f = "cleanKeyInsights" -> cleanKeyInsights(collection)

\* C24: every sanitizer function is idempotent: applied to the output that
\* it returned for an input collection, it returns that output unchanged.
C24_SanitizerIdempotent ==
  SanDone => Applied(sanitizer, sanOutput) = sanOutput

\* cleanParagraphs has dropped an entry and trimmed another, and returned
\* two paragraphs.
C24_Witness ==
  /\ SanDone
  /\ sanitizer = "cleanParagraphs"
  /\ Len(sanInput) = 3
  /\ Len(sanOutput) = 2
  /\ \E i \in 1..3 : sanInput[i] # Undefined /\ sanOutput[1] = trim(sanInput[i])
                     /\ sanOutput[1] # sanInput[i]
  /\ Applied(sanitizer, sanOutput) = sanOutput

----------------------------------------------------------------------------
(* Properties of the served feed, over SpecPipeline *)

\* A feed request was the last thing that happened.
JustServed == servedAt > 0 /\ servedAt = clock - 1

\* The titles of the articles of a file, in order.
TitlesOfAi(file) == [i \in 1..Len(file.articles) |-> file.articles[i].title]
TitlesOfRss(file) ==
  [i \in 1..Len(file.articlesWithOdds) |->
     file.articlesWithOdds[i].rssItem.title]
TitlesServed(feed) == [i \in 1..Len(feed.items) |-> feed.items[i].title]

\* The last request read ai_enhanced_sports_data.json as it is now: the
\* file exists and was written before that request.
ServedThisAiFile ==
  /\ servedAt > 0
  /\ aiEnhancedJson # <<>>
  /\ aiEnhancedJson[1].lastAIUpdate[1] < servedAt

\* C25: a feed request serves ai_enhanced_sports_data.json whenever the file
\* exists (every item with the analysis and the time of the AI run),
\* otherwise rss_with_odds.json (no item with an analysis), and throws when
\* neither exists; and a request that follows a request which read the AI
\* file as it still is gets the same feed, whatever the scraper wrote to
\* rss_with_odds.json in between.
C25_AiFileServedUntilNextAiRun ==
  /\ [](JustServed =>
          IF aiEnhancedJson # <<>>
            THEN /\ ~served.raised
                 /\ TitlesServed(served.feed[1]) = TitlesOfAi(aiEnhancedJson[1])
                 /\ \A i \in 1..Len(served.feed[1].items) :
                      /\ "aiAnalysis" \in DOMAIN served.feed[1].items[i]
                      /\ served.feed[1].items[i].aiAnalysis =
                           aiEnhancedJson[1].articles[i].aiAnalysis
                 /\ served.feed[1].lastUpdated = aiEnhancedJson[1].lastAIUpdate[1]
          ELSE IF rssWithOddsJson # <<>>
            THEN /\ ~served.raised
                 /\ TitlesServed(served.feed[1]) = TitlesOfRss(rssWithOddsJson[1])
                 /\ \A i \in 1..Len(served.feed[1].items) :
                      "aiAnalysis" \notin DOMAIN served.feed[1].items[i]
                 /\ served.feed[1].lastUpdated = rssWithOddsJson[1].lastUpdated[1]
          ELSE served.raised /\ served.feed = <<>>)
  /\ [][(servedAt' # servedAt /\ ServedThisAiFile) => served' = served]_vars

\* The AI file was written, the scraper then rewrote rss_with_odds.json with
\* another article list, and the feed was requested after that.
C25_Witness ==
  /\ aiEnhancedJson # <<>>
  /\ rssWithOddsJson # <<>>
  /\ rssWithOddsJson[1].lastUpdated[1] > aiEnhancedJson[1].lastAIUpdate[1]
  /\ TitlesOfRss(rssWithOddsJson[1]) # TitlesOfAi(aiEnhancedJson[1])
  /\ Len(aiEnhancedJson[1].articles) > 0
  /\ servedAt > rssWithOddsJson[1].lastUpdated[1]
  /\ ~served.raised

----------------------------------------------------------------------------
(* Properties of getRSSWithPuppeteer, over SpecScrape *)

ScrapeDone == scrapePc = "done"

\* C27 as stated: every run ends with the browser closed exactly once and
\* with a result object or null.
C27_ClosedOnceResultOrNull ==
  ScrapeDone => closeCalls = 1 /\ scrapeResult \in {"value", "null"}

\* C27, amended: browser.close() is called at most once, and exactly once
\* before the run gives anything when the launch resolved; the alternative
\* fetch is begun at most once, by the script alone, and only when the first
\* content is not a feed and mentions 'AWS WAF' or 'challenge'; and a run
\* that is over gave a value or null when the launch and the close resolved,
\* and rejected when the launch rejected (no browser, no close) or the close
\* rejected.
C27_ClosedOnceWhenLaunched ==
  /\ closeCalls <= 1
  /\ alternativeFetches <= 1
  /\ alternativeFetches = 1 =>
       /\ scrapeRunner = "script"
       /\ Len(rawContents) >= 1
       /\ ~gotRss(extractXMLFromHTML(rawContents[1]))
       /\ mentionsWaf(rawContents[1])
  /\ scrapeResult # "none" => ScrapeDone
  /\ ScrapeDone =>
       /\ closeCalls = (IF browser = "none" THEN 0 ELSE 1)
       /\ scrapeResult \in {"value", "null", "rejected"}
       /\ scrapeResult = "rejected" <=> browser # "closed"
       /\ scrapeResult # "rejected" => scrapeResult = completion

\* A run of the script whose first content was a WAF page, whose alternative
\* fetch got a feed, and which gave the result object after the close.
C27_Witness ==
  /\ ScrapeDone
  /\ scrapeRunner = "script"
  /\ alternativeFetches = 1
  /\ Len(rawContents) = 2
  /\ mentionsWaf(rawContents[1])
  /\ scrapeResult = "value"
  /\ closeCalls = 1

\* Every run comes to its end, every await settling.
ScrapeRunEnds == <>ScrapeDone

----------------------------------------------------------------------------
(* Properties of the routes that spawn, over SpecJobs *)

\* How many of the events of a request are of the kinds given.
EventCount(events, kinds) == Cardinality({k \in 1..Len(events) : events[k] \in kinds})

\* C26: every request to /api/rss/update or /api/ai/analyze has exactly one
\* response, the success response of its route, sent before spawn is called;
\* no other response follows, whether spawn throws, the child emits 'error'
\* or exits with a code that is not 0; and spawn is called once for every
\* request, whatever children are still running.
C26_OneSuccessResponseBeforeSpawn ==
  /\ Len(jobResponses) = Len(jobRequests)
  /\ Len(jobEvents) = Len(jobRequests)
  /\ \A i \in 1..Len(jobRequests) :
       /\ Len(jobResponses[i]) = 1
       /\ jobResponses[i][1].status = 200
       /\ jobResponses[i][1].body.success
       /\ jobResponses[i][1] = startedAnswer(jobRequests[i].route)
       /\ jobEvents[i][1] = "response"
       /\ jobEvents[i][2] \in {"spawn", "threw"}
       /\ EventCount(jobEvents[i], {"response"}) = 1
       /\ EventCount(jobEvents[i], {"spawn", "threw"}) = 1

\* Three requests: the child of the first still runs when the second is
\* spawned and exits with code 1 later, the spawn of a third throws.
C26_Witness ==
  /\ Len(jobRequests) = 3
  /\ jobEvents[1] = <<"response", "spawn", "close 1">>
  /\ children[2] = "running"
  /\ jobEvents[3] = <<"response", "threw">>
  /\ jobRequests[1].route = jobRequests[2].route

----------------------------------------------------------------------------
(* Properties of the enrichment under failed analyses, over SpecEnrich *)

\* The enrichment is over, whether it came to its end or was ended.
EnrichOver == enrichPc \in {"done", "failed"}

\* The titles of a list of articles, in order.
TitlesOf(articles) == [k \in 1..Len(articles) |-> articles[k].title]

\* C28: when the enrichment is over there is an output, and it holds one
\* article for each article given, in the order given, whether or not an
\* analysis failed.
C28_EveryArticleKeptDespiteFailure ==
  EnrichOver =>
    /\ aiEnhanced # <<>>
    /\ Len(aiEnhanced[1].articles) = Len(ArticlesGiven)
    /\ TitlesOf(aiEnhanced[1].articles) = TitlesOf(ArticlesGiven)

\* analyzeAllArticles alone keeps the list: it returns one article for each
\* article given, in order, each with an analysis or as it was given.
AnalyzeAllKeepsEveryArticle ==
  enricher = "analyzeAllArticles" =>
    /\ enrichPc # "failed"
    /\ enrichPc = "done" =>
         /\ Len(aiEnhanced[1].articles) = Len(ArticlesGiven)
         /\ \A k \in 1..Len(ArticlesGiven) :
              \/ aiEnhanced[1].articles[k] = ArticlesGiven[k]
              \/ /\ SameButAiAnalysis(ArticlesGiven[k], aiEnhanced[1].articles[k])
                 /\ "aiAnalysis" \in DOMAIN aiEnhanced[1].articles[k]

\* processSportsDataWithAI writes the file only when no analysis threw.
ScriptWritesAllOrNothing ==
  enricher = "processSportsDataWithAI" =>
    /\ enrichPc = "failed" => aiEnhanced = <<>>
    /\ enrichPc = "done" => Len(aiEnhanced[1].articles) = Len(aiArticles)

----------------------------------------------------------------------------
(* Properties of DatabaseService, over SpecDb *)

\* The positions in the log of the call where the text is issued.
Issued(text) == {k \in 1..Len(statements) : statements[k].text = text}

\* Something that transaction awaited within its try block failed.
TryFailed ==
  \E k \in 1..Len(statements) :
    statements[k].text \in {"BEGIN", "callback", "COMMIT"} /\ ~statements[k].ok

\* The callback ran and resolved.
CallbackResolved == \E k \in Issued("callback") : statements[k].ok

TransactionOver == dbCall = "transaction" /\ dbPc = "done"

\* C29: a transaction that got its client issues BEGIN first; COMMIT once
\* when the callback resolved and never otherwise, after the callback;
\* ROLLBACK once, as its last statement, when BEGIN, the callback or COMMIT
\* failed and never otherwise; releases the client exactly once, at its end
\* and not before; and throws exactly when a step failed, returning
\* otherwise.
C29_TransactionCommitsOrRollsBack ==
  /\ dbCall = "transaction" =>
       /\ released <= acquired
       /\ acquired <= 1
       /\ released = 1 => dbPc = "done"
  /\ TransactionOver /\ acquired = 1 =>
       /\ statements[1].text = "BEGIN"
       /\ Cardinality(Issued("BEGIN")) = 1
       /\ Cardinality(Issued("COMMIT")) = (IF CallbackResolved THEN 1 ELSE 0)
       /\ \A c \in Issued("COMMIT"), k \in Issued("callback") : k < c
       /\ Cardinality(Issued("ROLLBACK")) = (IF TryFailed THEN 1 ELSE 0)
       /\ Issued("ROLLBACK") \subseteq {Len(statements)}
       /\ released = 1
       /\ dbOutcome = (IF TryFailed THEN "threw" ELSE "returned")
       /\ dbOutcome = "threw" <=> dbThrown # "none"
  /\ TransactionOver /\ acquired = 0 =>
       statements = <<>> /\ released = 0 /\ dbOutcome = "threw"

\* A transaction whose callback resolved after a statement and whose COMMIT
\* failed: ROLLBACK follows, the client is released, the error is thrown.
C29_Witness ==
  /\ TransactionOver
  /\ CallbackResolved
  /\ Len(statements) = 5
  /\ statements[4] = [text |-> "COMMIT", ok |-> FALSE]
  /\ statements[5] = [text |-> "ROLLBACK", ok |-> TRUE]
  /\ released = 1
  /\ dbOutcome = "threw"
  /\ dbThrown = "COMMIT"

\* connect or initializeTables has returned or thrown.
BootstrapOver == bootstrapState \in {"with database", "without database"}

\* C30: after connect or initializeTables returned or threw, every client
\* that they acquired has been released.
C30_EveryClientReleased == BootstrapOver => released = acquired

\* connect releases its client, and initializeTables releases its own
\* exactly when no CREATE TABLE statement failed: the client of a failed
\* statement stays checked out.
ClientLeftAfterFailedCreate ==
  /\ dbCall = "initializeTables" /\ dbPc = "connect" => released = acquired
  /\ BootstrapOver =>
       acquired - released =
         (IF \E k \in 1..Len(statements) : ~statements[k].ok THEN 1 ELSE 0)

====
